---- MODULE Spec2Model ----
(***************************************************************************)
(* Model of the request cache of src/src/index.ts (createApi): the entry   *)
(* store, setKey, loadUrl, touchWithMatcher, the useApi interest           *)
(* accounting and the deferred garbage collector.                          *)
(*                                                                         *)
(* One action is one macrotask of the JavaScript event loop together with  *)
(* the microtasks it schedules: a render pass with its commit effects, an  *)
(* unmount, a call of touchWithMatcher (scan and issue of the refetches),  *)
(* the arrival of one transport response with the promise continuations it *)
(* runs, the firing of one deletion timer, a call of preload, of reset or  *)
(* of an api object, the run of a mount effect left over by a commit.      *)
(***************************************************************************)
EXTENDS Integers, Sequences, FiniteSets, TLC

\* ------------------------------------------------------------------ bounds
\* Spec: two readers of one resource.
MaxGets == 2        \* transport GETs unsettled (or held by a touch) at once
MaxTimers == 1      \* deletion timers pending at once
MaxReads == 2       \* api reads of one evaluation pass
\* SpecBatch: one reader of a list resource and of the entity it carries.
BatchGets == 2
BatchTimers == 1
BatchReads == 2
BatchCount == 1
MaxCount == 2       \* magnitude of a subscribersCount
MaxPreloads == 1    \* preload calls that have not ended, at once
StoreTimers == 2    \* SpecStore: deletion timers pending at once
LiveGets == 3       \* SpecLive: transport GETs unsettled or held at once
PairPreloads == 2   \* SpecPair: preload calls that have not ended, at once

\* ------------------------------------------------------- the small universe
\* The keys of the store in the order Array.from(cache.keys()) yields them:
\* a list resource and the entity its response carries.
KeyOrder == <<"/users", "/users/1">>
Keys == {KeyOrder[i] : i \in 1..Len(KeyOrder)}
Readers == {1, 2}
Payloads == {"list", "plain"}

\* ------------------------------------------------------------------ values
\* A JavaScript value as far as the cache distinguishes it.  "throw" is the
\* accessor `get value() { throw err }` of setKey's error branch, "errobj" the
\* Error object held as an ordinary value, "promise" a future.
Undefined == [kind |-> "undefined", data |-> "-", id |-> 0]
Null == [kind |-> "null", data |-> "-", id |-> 0]
Data(d) == [kind |-> "data", data |-> d, id |-> 0]
Thrower(e) == [kind |-> "throw", data |-> "-", id |-> e]
ErrObj(e) == [kind |-> "errobj", data |-> "-", id |-> e]
PromiseOf(p) == [kind |-> "promise", data |-> "-", id |-> p]

isPromise(value) == value.kind = "promise"

\* getMaybeError(() => item.value): the thrown error comes back as a value.
getMaybeError(value) == IF value.kind = "throw" THEN ErrObj(value.id) ELSE value

\* The pluggable extractor (deduplicationStrategy): a list response carries
\* the entity addressed by "/users/1"; any other value carries none.
deduplicationStrategy(value) ==
    IF value = Data("list") THEN <<"/users/1">> ELSE <<>>

DerivedValue(value, key) == Data("plain")

\* ---------------------------------------------------------------- Map, timers
Has(map, key) == key \in DOMAIN map

Put(map, key, item) ==
    [k \in DOMAIN map \cup {key} |-> IF k = key THEN item ELSE map[k]]

Delete(map, key) == [k \in DOMAIN map \ {key} |-> map[k]]

Item(value, promise, subscribersCount, dependentKeys, deletionTimeout) ==
    [value |-> value, promise |-> promise,
     subscribersCount |-> subscribersCount,
     dependentKeys |-> dependentKeys, deletionTimeout |-> deletionTimeout]

\* Handles are small integers; 0 is null.  A handle is given again once the
\* timer (the GET) it named is gone and nothing refers to it any more.
NoKey == "-"

FreeHandles(table) == {h \in DOMAIN table : table[h].key = NoKey}

NewHandle(table) ==
    IF FreeHandles(table) = {} THEN 0
    ELSE CHOOSE h \in FreeHandles(table) : \A g \in FreeHandles(table) : h <= g

NoTimer == [key |-> NoKey]

\* setTimeout(callback, 1000 * 60 * 3): the pending timers, by handle; the
\* callback of a timer is deferRemoveKey's, closed over key.
setTimeout(handles, key) == [handles EXCEPT ![NewHandle(handles)] = [key |-> key]]

clearTimeout(handles, t) ==
    IF t \in DOMAIN handles THEN [handles EXCEPT ![t] = NoTimer] ELSE handles

VARIABLES
    cache,            \* Map: key -> item
    timers,           \* pending timers, by handle
    gets,             \* transport GETs not yet disposed of, by promise handle
    subscribers,      \* readers whose subscription is registered (mounted)
    keysRef,          \* reader -> keysRef.current
    previousKeysRef,  \* reader -> previousKeysRef.current
    grace,            \* key -> the grace period of its last unsubscribe runs
    preloads,         \* preload calls, by slot: fn, caller, where the loop is
    effects,          \* readers committed whose mount effect has not run yet
    doSubscription,   \* the flag of createApi (let doSubscription = true)
    ev                \* what the last step did

vars ==
    <<cache, timers, gets, subscribers, keysRef, previousKeysRef, grace,
      preloads, effects, doSubscription, ev>>

\* The engine state that the functions of createApi mutate, threaded through
\* the sequential code of one step.
\*   notes: listener invocations of this step, <<reader, key, forceUpdate>>
\*   keys:  the Set passed to loadUrl as `keys` (keysRef.current of the pass)
\*   ok:    FALSE when the step needs more handles than the bounds allow
\*   grace: the clock of the 3 minutes that deferRemoveKey gives a key.  For an
\*          observed key (one in its domain) it is TRUE from the moment an
\*          unsubscribe brings the subscribersCount of the key to 0 and its
\*          timer is armed, until the key is read or the 3 minutes are over,
\*          whether or not the timer is cancelled meanwhile.
\*   doSubscription: the flag of createApi (index.ts 88); preload lowers it
\*          for the time of one call of fn.
\*   preloads: the preload calls;  runs: the calls of fn made in this step.
Engine(c, t, g) ==
    [cache |-> c, timers |-> t, gets |-> g, notes |-> <<>>, keys |-> {},
     ok |-> TRUE, grace |-> grace, doSubscription |-> doSubscription,
     preloads |-> preloads, runs |-> <<>>]

Clock(S, key, running) ==
    IF key \in DOMAIN S.grace THEN [S EXCEPT !.grace[key] = running] ELSE S

\* ------------------------------------------------------------------ setKey
\* subscribers.forEach(ref => ref.current && ref.current(key)): every
\* registered subscription is invoked with the key; the subscription calls
\* forceUpdate() when keysRef.current has the key (index.ts 381-384).
RECURSIVE NotifyFrom(_, _, _)
NotifyFrom(S, key, r) ==
    IF r > Cardinality(Readers) THEN S
    ELSE IF r \notin subscribers THEN NotifyFrom(S, key, r + 1)
    ELSE NotifyFrom(
            [S EXCEPT !.notes = Append(@, <<r, key, key \in keysRef[r]>>)],
            key, r + 1)

\* a write that invokes no subscription
NotifyNobody(S, key) == S

Notify(S, key) == NotifyFrom(S, key, 1)

\* a value branch that writes no derived entry
SeedNothing(map, value, otherKeys, i) == map

\* a value branch that seeds over the entries it finds
SeedAlways(map, key) == TRUE

\* if (!cache.get(key)): only a derived key without an entry is seeded (149)
SeedMisses(map, key) == ~Has(map, key)

\* for (let key in otherKeys) if (!cache.get(key)) cache.set(key, {...})
RECURSIVE SeedFrom(_, _, _, _)
SeedFrom(map, value, otherKeys, i) ==
    IF i > Len(otherKeys) THEN map
    ELSE SeedFrom(
            IF ~SeedMisses(map, otherKeys[i]) THEN map
            ELSE Put(map, otherKeys[i],
                     Item(DerivedValue(value, otherKeys[i]), 0, 0, <<>>, 0)),
            value, otherKeys, i + 1)

\* a promise branch that forgets the value
PendingDropsValue(existingValue) == Undefined

\* `value: existingValue` of the promise branch: the item keeps what it held
PendingItemValue(existingValue) == existingValue

\* an error branch that stores the Error object as the value
ErrorAsValue(e) == ErrObj(e)

\* `get value() { throw value }` of the error branch
ErrorItemValue(e) == Thrower(e)

\* a promise branch that goes on to subscribers.forEach
RegisteredAloud(S, key) == NotifyFrom(S, key, 1)

\* a value branch that keeps the list of the item it replaces
DependentKeysKept(dependentKeys, otherKeys) == dependentKeys

\* const dependentKeys = Object.keys(otherKeys): the value branch shadows the
\* list of the old item with the keys of the new value (136-137)
DependentKeysOf(dependentKeys, otherKeys) == otherKeys

\* registering promises in the cache does not require subscribing components
\* to update: the promise branch returns before subscribers.forEach (111-123)
Registered(S, key) == S

setKey(S, key, value) ==
    LET has == Has(S.cache, key)
        subscribersCount == IF has THEN S.cache[key].subscribersCount ELSE 0
        existingValue ==
            IF has THEN getMaybeError(S.cache[key].value) ELSE Undefined
        dependentKeys == IF has THEN S.cache[key].dependentKeys ELSE <<>>
        deletionTimeout == IF has THEN S.cache[key].deletionTimeout ELSE 0
        timers1 == IF deletionTimeout # 0
                   THEN clearTimeout(S.timers, deletionTimeout) ELSE S.timers
    IN  IF isPromise(value)
        THEN Registered(
                [S EXCEPT
                    !.timers = timers1,
                    !.cache = Put(S.cache, key,
                        Item(PendingItemValue(existingValue), value.id,
                             subscribersCount, dependentKeys, 0))],
                key)
        ELSE IF value.kind = "errobj"
        THEN Notify(
                [S EXCEPT
                    !.timers = timers1,
                    !.cache = Put(S.cache, key,
                        Item(ErrorItemValue(value.id), 0, subscribersCount,
                             dependentKeys, 0))],
                key)
        ELSE LET otherKeys == deduplicationStrategy(value)
             IN Notify(
                [S EXCEPT
                    !.timers = timers1,
                    !.cache = SeedFrom(
                        Put(S.cache, key,
                            Item(value, 0, subscribersCount,
                                 DependentKeysOf(dependentKeys, otherKeys), 0)),
                        value, otherKeys, 1)],
                key)

\* ------------------------------------------------------------------ loadUrl
\* The outcome of one read: a returned value, a raised future (the pending
\* signal) or a raised error.
Returned(value) == [kind |-> "value", value |-> value, p |-> 0]
RaisedPending(p) == [kind |-> "pending", value |-> Undefined, p |-> p]
RaisedError(e) == [kind |-> "error", value |-> ErrObj(e), p |-> 0]

\* A transport GET; its handle is also the handle of the promise that loadUrl
\* (or refresh) builds around it.  loadUrlFromCache defaults to
\* `async () => {}`, so the promise of loadUrl always reaches axios.
\*   status "flight": no response yet; "held": the refetch of a touch has its
\*   result, the touch call still awaits Promise.all.
\*   touch, n: the touch call of a refetch and its place in keyValues.
NoGet ==
    [key |-> NoKey, kind |-> "-", touch |-> 0, n |-> 0, status |-> "-",
     outcome |-> Undefined]

NewGet(key, kind, touch, n) ==
    [key |-> key, kind |-> kind, touch |-> touch, n |-> n,
     status |-> "flight", outcome |-> Undefined]

\* axios({url: key, method: 'get'})
IssueGet(S, key, kind, touch, n) ==
    IF NewHandle(S.gets) = 0 THEN [S EXCEPT !.ok = FALSE]
    ELSE [S EXCEPT !.gets[NewHandle(S.gets)] = NewGet(key, kind, touch, n)]

\* loadUrl without the early return
IsLoadedNever(value) == FALSE

\* if (value !== undefined): return early if the value is already loaded
IsLoaded(value) == value # Undefined

\* loadUrl without the piggy-back branch
PiggybackNever(existingPromise) == FALSE

\* if (isPromise(existingPromise)) throw existingPromise: piggy back
Piggyback(existingPromise) == existingPromise # 0

\* track: the call passes `keys` (a read of a subscribing evaluation pass).
\* Returns the engine after the call and the outcome of the read.  The item
\* keeps the handle of a timer that loadUrl cleared; a cleared handle is
\* inert, and the model writes null for it.
loadUrl(S, key, track) ==
    LET S0 == Clock(IF track THEN [S EXCEPT !.keys = @ \cup {key}] ELSE S,
                    key, FALSE)
        has == Has(S0.cache, key)
    IN  IF has /\ S0.cache[key].value.kind = "throw"
        \* the destructuring reads `value` first: the accessor throws
        THEN [S |-> S0, res |-> RaisedError(S0.cache[key].value.id)]
        ELSE
        LET value == IF has THEN S0.cache[key].value ELSE Undefined
            existingPromise == IF has THEN S0.cache[key].promise ELSE 0
            deletionTimeout == IF has THEN S0.cache[key].deletionTimeout ELSE 0
            S1 == IF deletionTimeout # 0
                  THEN [S0 EXCEPT !.timers = clearTimeout(@, deletionTimeout),
                                  !.cache[key].deletionTimeout = 0]
                  ELSE S0
        IN  IF IsLoaded(value)
            THEN [S |-> S1, res |-> Returned(value)]
            ELSE IF Piggyback(existingPromise)
            THEN [S |-> S1, res |-> RaisedPending(existingPromise)]
            ELSE LET p == NewHandle(S1.gets)
                 IN [S |-> setKey(IssueGet(S1, key, "load", 0, 0), key, PromiseOf(p)),
                     res |-> RaisedPending(p)]

\* -------------------------------------------------------------- deferRemoveKey
deferRemoveKey(S, key) ==
    IF ~Has(S.cache, key) THEN S
    ELSE IF NewHandle(S.timers) = 0 THEN [S EXCEPT !.ok = FALSE]
    ELSE LET S1 == [S EXCEPT
                        !.timers = setTimeout(@, key),
                        !.cache[key].deletionTimeout = NewHandle(S.timers)]
         IN IF S.cache[key].subscribersCount = 0
            THEN Clock(S1, key, TRUE) ELSE S1

\* -------------------------------------------------------------------- useApi
\* The reads of one evaluation pass, in order.  With useDefer every read is
\* wrapped in defer(), which catches a pending signal and goes on with
\* loading = true (index.ts 571-579); a raised error leaves the pass.
RECURSIVE RunReads(_, _, _, _, _)
RunReads(S, reads, useDefer, i, res) ==
    IF i > Len(reads) THEN [S |-> S, res |-> res, end |-> "done"]
    ELSE LET call == loadUrl(S, reads[i], TRUE)
             res1 == Append(res, call.res)
         IN  IF call.res.kind = "pending" /\ ~useDefer
             THEN [S |-> call.S, res |-> res1, end |-> "suspended"]
             ELSE IF call.res.kind = "error"
             THEN [S |-> call.S, res |-> res1, end |-> "error"]
             ELSE RunReads(call.S, reads, useDefer, i + 1, res1)

\* count up new keys
RECURSIVE CountUp(_, _, _)
CountUp(S, newKeys, i) ==
    IF i > Len(KeyOrder) THEN S
    ELSE LET key == KeyOrder[i]
         IN CountUp(
                IF key \in newKeys /\ Has(S.cache, key)
                THEN [S EXCEPT !.cache[key].subscribersCount = @ + 1]
                ELSE S,
                newKeys, i + 1)

\* count down old keys until they are removed (also the unmount cleanup)
RECURSIVE CountDown(_, _, _)
CountDown(S, removedKeys, i) ==
    IF i > Len(KeyOrder) THEN S
    ELSE LET key == KeyOrder[i]
             S1 == [S EXCEPT !.cache[key].subscribersCount = @ - 1]
         IN CountDown(
                IF key \in removedKeys /\ Has(S.cache, key)
                THEN IF S1.cache[key].subscribersCount <= 0
                     THEN deferRemoveKey(S1, key) ELSE S1
                ELSE S,
                removedKeys, i + 1)

\* the layout effect of a completed pass: the interest-set diff
Commit(S, previousKeys) ==
    CountDown(CountUp(S, S.keys \ previousKeys, 1), previousKeys \ S.keys, 1)

\* --------------------------------------------------------- touchWithMatcher
\* a scan that keeps every match for the refetch
ScanKeepsAll(item) == FALSE

\* if (item.subscribersCount <= 0): a match that nobody reads is dropped
ScanUnsubscribed(item) == item.subscribersCount <= 0

\* a matcher that accepts every key
MatchesAll(matcher, cacheKey) == TRUE

\* matcher(cacheKey, value) (298); matcher is the set of keys the predicate
\* accepts
Matches(matcher, cacheKey) == cacheKey \in matcher

\* The scan over Array.from(cache.keys()).
RECURSIVE Scan(_, _, _, _)
Scan(S, matcher, i, keysToReset) ==
    IF i > Len(KeyOrder) THEN [S |-> S, keysToReset |-> keysToReset]
    ELSE LET cacheKey == KeyOrder[i]
         IN  IF ~Has(S.cache, cacheKey) \/ ~Matches(matcher, cacheKey)
             THEN Scan(S, matcher, i + 1, keysToReset)
             ELSE IF ScanUnsubscribed(S.cache[cacheKey])
             THEN Scan(
                    [S EXCEPT
                        !.timers =
                            IF S.cache[cacheKey].deletionTimeout # 0
                            THEN clearTimeout(@, S.cache[cacheKey].deletionTimeout)
                            ELSE @,
                        !.cache = Delete(@, cacheKey)],
                    matcher, i + 1, keysToReset)
             ELSE Scan(S, matcher, i + 1, Append(keysToReset, cacheKey))

\* keysToReset.map(cacheKey => { promise = refresh(); setKey(cacheKey, promise) })
RECURSIVE Refresh(_, _, _, _)
Refresh(S, keysToReset, i, touch) ==
    IF i > Len(keysToReset) THEN S
    ELSE LET cacheKey == keysToReset[i]
             p == NewHandle(S.gets)
         IN Refresh(
                setKey(IssueGet(S, cacheKey, "touch", touch, i), cacheKey,
                       PromiseOf(p)),
                keysToReset, i + 1, touch)

\* the touch calls that await their refetches
Touching(g) == {g[p].touch : p \in DOMAIN g} \ {0}

\* ---------------------------------------------------------------- transport
Responses ==
    {[status |-> 200, data |-> d] : d \in Payloads}
        \cup {[status |-> 404, data |-> "-"], [status |-> 500, data |-> "-"]}

\* A server whose resources keep their type: "/users" is a list, "/users/1"
\* an entity; either request may fail.
TypedResponses(key) ==
    {[status |-> 200, data |-> IF key = "/users" THEN "list" ELSE "plain"],
     [status |-> 500, data |-> "-"]}

\* a transport that reports every failure alike
NotFoundIsError(response, p) ==
    IF response.status = 200 THEN Data(response.data) ELSE ErrObj(p)

\* what the promise of loadUrl hands to setKey for a response (209-232)
LoadResult(response, p) ==
    IF response.status = 200 THEN Data(response.data)
    ELSE IF response.status = 404 THEN Null
    ELSE ErrObj(p)

\* a refetch that throws its response away
RefreshKeepsNothing(response, p) == Null

\* what refresh() resolves with for a response (310-335)
RefreshResult(response, p) ==
    IF response.status = 200 THEN Data(response.data)
    ELSE IF response.status = 404 THEN Null
    ELSE ErrObj(p)

\* a touch call that resumes at the first response it gets
FirstSettled(g, touch) == TRUE

\* Promise.all(...) of a touch call has resolved: none of its refetches is
\* still in flight.
AllSettled(g, touch) ==
    \A p \in DOMAIN g : g[p].touch = touch => g[p].status # "flight"

\* a touch whose Promise.all rejects with the first error among its results:
\* the call ends there, and what follows in keyValues is not written
RECURSIVE CommitUntilError(_, _, _)
CommitUntilError(S, touch, n) ==
    LET here == {p \in DOMAIN S.gets :
                    /\ S.gets[p].touch = touch
                    /\ S.gets[p].n = n
                    /\ S.gets[p].status = "held"}
        rest == {p \in DOMAIN S.gets : S.gets[p].touch = touch /\ S.gets[p].n > n}
        dropped == [p \in DOMAIN S.gets |->
                        IF S.gets[p].touch = touch THEN NoGet ELSE S.gets[p]]
    IN  IF here = {}
        THEN IF rest = {} THEN S ELSE CommitUntilError(S, touch, n + 1)
        ELSE LET p == CHOOSE q \in here : TRUE
             IN IF S.gets[p].outcome.kind = "errobj"
                THEN [S EXCEPT !.gets = dropped]
                ELSE CommitUntilError(
                        [setKey(S, S.gets[p].key, S.gets[p].outcome)
                            EXCEPT !.gets[p] = NoGet],
                        touch, n + 1)

\* for (let [key, value] of keyValues) setKey(key, value)
RECURSIVE CommitFrom(_, _, _)
CommitFrom(S, touch, n) ==
    LET here == {p \in DOMAIN S.gets :
                    /\ S.gets[p].touch = touch
                    /\ S.gets[p].n = n
                    /\ S.gets[p].status = "held"}
        rest == {p \in DOMAIN S.gets : S.gets[p].touch = touch /\ S.gets[p].n > n}
    IN  IF here = {} THEN IF rest = {} THEN S ELSE CommitFrom(S, touch, n + 1)
        ELSE LET p == CHOOSE q \in here : TRUE
             IN CommitFrom(
                    [setKey(S, S.gets[p].key, S.gets[p].outcome)
                        EXCEPT !.gets[p] = NoGet],
                    touch, n + 1)

\* ----------------------------------------------------- api objects, preload
\* what a call through an api object returns when it goes to the transport
\* itself (createAxiosProxy, 259-280): the future of that transport call
DirectCall == [kind |-> "future", value |-> Undefined, p |-> 0]

\* an exported api object that always reads through the cache
ApiAlwaysLoads(S, url) == loadUrl(S, url, FALSE)

\* getSuspendedValue of the exported api object (488-491)
ApiRead(S, url) ==
    IF S.doSubscription THEN [S |-> S, res |-> DirectCall]
    ELSE loadUrl(S, url, FALSE)

\* a hook api object that passes `keys` whatever doSubscription says
HookAlwaysTracks(S, url, isSuspending) == loadUrl(S, url, TRUE)

\* getSuspendedValue of the api object of useApi (444-453)
HookRead(S, url, isSuspending) ==
    IF ~isSuspending /\ S.doSubscription THEN [S |-> S, res |-> DirectCall]
    ELSE IF ~S.doSubscription THEN loadUrl(S, url, FALSE)
    ELSE loadUrl(S, url, TRUE)

\* A statement of fn that is not a read: `throw new Error()`.
Throw == "throw"

\* One call of fn inside preload.  by: 0 when fn reads through the exported
\* api object, r when it reads through the api object of reader r;
\* isSuspending: the flag of the pass that made that object.
RECURSIVE RunFn(_, _, _, _, _, _), FnGoesOn(_, _, _, _, _, _)
RunFn(S, fn, by, isSuspending, i, res) ==
    IF i > Len(fn) THEN [S |-> S, res |-> res, end |-> "done"]
    ELSE IF fn[i] = Throw
    THEN [S |-> S, res |-> Append(res, RaisedError(0)), end |-> "error"]
    ELSE FnGoesOn(IF by = 0 THEN ApiRead(S, fn[i])
                  ELSE HookRead(S, fn[i], isSuspending),
                  fn, by, isSuspending, i, res)

\* fn after its i-th statement, the read `call`: a raised future or error
\* leaves fn, a returned value lets it go on with the next statement
FnGoesOn(call, fn, by, isSuspending, i, res) ==
    IF call.res.kind = "pending"
    THEN [S |-> call.S, res |-> Append(res, call.res), end |-> "suspended"]
    ELSE IF call.res.kind = "error"
    THEN [S |-> call.S, res |-> Append(res, call.res), end |-> "error"]
    ELSE RunFn(call.S, fn, by, isSuspending, i + 1, Append(res, call.res))

\* reason: what a rejected call was rejected with
NoPreload ==
    [fn |-> <<>>, by |-> 0, sus |-> FALSE, status |-> "-", p |-> 0,
     reason |-> Undefined]

\* a loop that ends whatever fn did
FnAlwaysReturned(end) == TRUE

\* fn(); doSubscription = true; break
FnReturned(end) == end = "done"

\* a catch that awaits whatever was raised
AwaitsAnything(end) == TRUE

\* catch (e): if (!isPromise(e)) throw e; await e
AwaitsRaised(end) == end = "suspended"

\* `await e` on the future of a refetch that has its result while its touch
\* call still awaits Promise.all: the entry keeps the settled future, fn raises
\* it again at once, `await e` returns in the next microtask, and the loop of
\* preload turns on every microtask from then on.
AwaitsSettled(g, p) == p \in DOMAIN g /\ g[p].status = "held"

\* The end of one turn of the loop of preload call c, fn having run as `run`
\* says: break, `await e` or `throw e` (526-532).
TurnEnds(S, c, run) ==
    IF FnReturned(run.end)
    THEN [S EXCEPT !.preloads[c].status = "resolved", !.preloads[c].p = 0]
    ELSE IF AwaitsRaised(run.end)
    THEN [S EXCEPT !.preloads[c].status =
                        IF AwaitsSettled(S.gets, run.res[Len(run.res)].p)
                        THEN "spinning" ELSE "waiting",
                   !.preloads[c].p = run.res[Len(run.res)].p]
    ELSE [S EXCEPT !.preloads[c].status = "rejected", !.preloads[c].p = 0,
                   !.preloads[c].reason = run.res[Len(run.res)].value]

\* a catch that leaves doSubscription as fn left it
FnRanLow(run, c) ==
    TurnEnds([run.S EXCEPT
                !.doSubscription = FnReturned(run.end),
                !.runs = Append(@, [c |-> c, res |-> run.res, end |-> run.end])],
             c, run)

\* doSubscription = true, on either way out of fn (526, 529)
FnRan(run, c) ==
    TurnEnds([run.S EXCEPT
                !.doSubscription = TRUE,
                !.runs = Append(@, [c |-> c, res |-> run.res, end |-> run.end])],
             c, run)

\* One turn of the while loop of preload call c (522-534).
PreloadTurn(S, c) ==
    FnRan(RunFn([S EXCEPT !.doSubscription = FALSE],
                S.preloads[c].fn, S.preloads[c].by, S.preloads[c].sus,
                1, <<>>),
          c)

\* a preload that never comes back from its await
AwaitsNever(pre, ps) == FALSE

\* `await e`: the call waits for one of the futures ps
Awaits(pre, ps) == pre.status = "waiting" /\ pre.p \in ps

\* The futures ps have resolved: the preload calls that await one of them go
\* on with their loops, in the order of their slots.  waiting: the calls that
\* awaited when the futures resolved.
RECURSIVE Wake(_, _, _)
Wake(S, waiting, c) ==
    IF c > Len(S.preloads) THEN S
    ELSE Wake(IF c \in waiting THEN PreloadTurn(S, c) ELSE S, waiting, c + 1)

Resume(S, ps) ==
    Wake(S, {c \in DOMAIN S.preloads : Awaits(S.preloads[c], ps)}, 1)

\* The futures ps are those of refetches that have their results while their
\* touch call still awaits Promise.all: the preload calls that await one of
\* them call fn again.
Spin(S, ps) == Resume(S, ps)

\* ------------------------------------------------------------------ actions
EmptyMap == [k \in {} |-> Undefined]

Event(op) ==
    [op |-> op, r |-> 0, reads |-> <<>>, res |-> <<>>, end |-> "-",
     matcher |-> {}, h |-> 0, status |-> 0, data |-> "-", notes |-> <<>>,
     before |-> {}, deps |-> <<>>, old |-> Undefined, deleted |-> {},
     runs |-> <<>>, by |-> 0, file |-> <<>>, created |-> {},
     newest |-> FALSE]

Init ==
    /\ cache = EmptyMap
    /\ timers = [t \in 1..MaxTimers |-> NoTimer]
    /\ gets = [p \in 1..MaxGets |-> NoGet]
    /\ subscribers = {}
    /\ keysRef = [r \in Readers |-> {}]
    /\ previousKeysRef = [r \in Readers |-> {}]
    /\ grace = [k \in {"/users/1"} |-> FALSE]
    /\ preloads = [c \in 1..MaxPreloads |-> NoPreload]
    /\ effects = {}
    /\ doSubscription = TRUE
    /\ ev = Event("init")

Apply(S) ==
    /\ S.ok
    /\ cache' = S.cache
    /\ timers' = S.timers
    /\ gets' = S.gets
    /\ grace' = S.grace
    /\ preloads' = S.preloads
    /\ doSubscription' = S.doSubscription

\* the cap on the counters that the interest accounting can drive without end
Within(cap) ==
    \A k \in DOMAIN cache :
        cache[k].subscribersCount <= cap /\ cache[k].subscribersCount >= -cap

\* The reads a pass may make: a component may render without a read.
ReadSeqs(keySet, minReads, maxReads) ==
    UNION {[1..n -> keySet] : n \in minReads..maxReads}

\* One evaluation pass of reader r (a render of its component) and, when the
\* pass completes, its commit: the layout effect and, on mount, the effect
\* that registers the subscription.  A component that has not been mounted
\* starts every pass with fresh refs.  The mount effect is a passive effect
\* (useEffect, 387-388): React runs it with the commit (flushed) or in a task
\* of its own after the commit, and always before the next pass.
Render(r, reads, useDefer, flushed) ==
    LET mounted == r \in subscribers
        previousKeys ==
            IF mounted THEN previousKeysRef[r] \cup keysRef[r] ELSE {}
        run == RunReads(Engine(cache, timers, gets), reads, useDefer, 1, <<>>)
        completed == run.end = "done"
        S1 == IF completed THEN Commit(run.S, previousKeys) ELSE run.S
    IN  /\ r \notin effects
        /\ Apply(S1)
        /\ keysRef' = [keysRef EXCEPT
                ![r] = IF completed \/ mounted THEN S1.keys ELSE {}]
        /\ previousKeysRef' = [previousKeysRef EXCEPT
                ![r] = IF completed THEN S1.keys
                       ELSE IF mounted THEN previousKeys ELSE {}]
        /\ subscribers' = IF completed /\ flushed
                           THEN subscribers \cup {r} ELSE subscribers
        /\ effects' = IF completed /\ ~flushed /\ ~mounted
                       THEN effects \cup {r} ELSE effects
        /\ ev' = [Event("pass") EXCEPT
                    !.r = r, !.reads = reads, !.res = run.res, !.end = run.end,
                    !.before = {k \in DOMAIN grace : grace[k]}]

\* a pass whose commit runs its passive effects
Pass(r, reads, useDefer) == Render(r, reads, useDefer, TRUE)

\* a pass whose commit leaves its passive effects to a later task
PassDeferred(r, reads, useDefer) == Render(r, reads, useDefer, FALSE)

\* The mount effect of reader r runs: subscribers.add(subscription) (388).
FlushEffects(r) ==
    /\ r \in effects
    /\ effects' = effects \ {r}
    /\ subscribers' = subscribers \cup {r}
    /\ ev' = [Event("effect") EXCEPT !.r = r]
    /\ UNCHANGED <<cache, timers, gets, keysRef, previousKeysRef, grace,
                   preloads, doSubscription>>

\* The cleanup of the mount effect.
Unmount(r) ==
    /\ r \in subscribers
    /\ Apply(CountDown(Engine(cache, timers, gets), keysRef[r], 1))
    /\ subscribers' = subscribers \ {r}
    /\ keysRef' = [keysRef EXCEPT ![r] = {}]
    /\ previousKeysRef' = [previousKeysRef EXCEPT ![r] = {}]
    /\ ev' = [Event("unmount") EXCEPT !.r = r]
    /\ UNCHANGED effects

\* the name of a new touch call: every awaiting call has a refetch in gets
NewTouch(g) ==
    IF DOMAIN g \ Touching(g) = {} THEN 0
    ELSE CHOOSE t \in DOMAIN g \ Touching(g) :
            \A u \in DOMAIN g \ Touching(g) : t <= u

\* A call of touchWithMatcher up to its await: the scan and the issue of one
\* refetch per key to reset.
Touch(matcher) ==
    LET scan == Scan(Engine(cache, timers, gets), matcher, 1, <<>>)
        S1 == Refresh(scan.S, scan.keysToReset, 1, NewTouch(gets))
    IN  /\ scan.keysToReset # <<>> => NewTouch(gets) # 0
        /\ Apply(S1)
        /\ ev' = [Event("touch") EXCEPT !.matcher = matcher,
                                        !.reads = scan.keysToReset,
                                        !.notes = S1.notes,
                                        !.deleted =
                                            DOMAIN cache \ DOMAIN scan.S.cache]
        /\ UNCHANGED <<subscribers, keysRef, previousKeysRef, effects>>

\* the entry of its key holds the future of fetch p: no fetch of the key was
\* issued after p
Newest(p) == Has(cache, gets[p].key) /\ cache[gets[p].key].promise = p

\* The task of a response has run with its microtasks and left the engine S.
Settled(S, event) ==
    /\ Apply(S)
    /\ ev' = [event EXCEPT !.notes = S.notes, !.runs = S.runs]

\* Refetch p has its result: when it is the last one of its touch call, the
\* call resumes and writes the batch (Promise.all, 316-345).
Held(S, p) ==
    IF AllSettled(S.gets, S.gets[p].touch)
    THEN Resume(CommitFrom(S, S.gets[p].touch, 1), {p})
    ELSE Spin(S, {p})

\* The response to the GET of a loadUrl promise arrives.
SettleLoad(p, response) ==
    /\ gets[p].kind = "load" /\ gets[p].status = "flight"
    /\ Settled(Resume(setKey([Engine(cache, timers, gets) EXCEPT
                                    !.gets[p] = NoGet],
                              gets[p].key, LoadResult(response, p)),
                       {p}),
               [Event("settleLoad") EXCEPT !.h = p, !.reads = <<gets[p].key>>,
                    !.status = response.status, !.data = response.data,
                    !.newest = Newest(p)])
    /\ UNCHANGED <<subscribers, keysRef, previousKeysRef, effects>>

\* The response to the GET of one refetch of a touch arrives; when it is the
\* last one of its touch call, the call resumes and writes the batch.
SettleTouch(p, response) ==
    /\ gets[p].kind = "touch" /\ gets[p].status = "flight"
    /\ Settled(Held([Engine(cache, timers, gets) EXCEPT
                        !.gets[p].status = "held",
                        !.gets[p].outcome = RefreshResult(response, p)],
                    p),
               [Event("settleTouch") EXCEPT !.h = p, !.reads = <<gets[p].key>>,
                    !.status = response.status, !.data = response.data,
                    !.newest = Newest(p),
                    !.old = IF Has(cache, gets[p].key)
                            THEN cache[gets[p].key].value ELSE Undefined])
    /\ UNCHANGED <<subscribers, keysRef, previousKeysRef, effects>>

\* a cascade that does not look at the subscribers of a dependent
CascadeAlways(dependentItem) == TRUE

\* if (dependentItem.subscribersCount <= 0) cache.delete(dependentKey)
CascadeEligible(dependentItem) == dependentItem.subscribersCount <= 0

\* cache.delete of the dependents that have no subscribers (467-477)
RECURSIVE Cascade(_, _, _)
Cascade(map, dependentKeys, i) ==
    IF i > Len(dependentKeys) THEN map
    ELSE Cascade(
            IF Has(map, dependentKeys[i])
               /\ CascadeEligible(map[dependentKeys[i]])
            THEN Delete(map, dependentKeys[i]) ELSE map,
            dependentKeys, i + 1)

\* The callback of deferRemoveKey's timer runs.
TimerFire(t) ==
    /\ timers[t] # NoTimer
    /\ timers' = [timers EXCEPT ![t] = NoTimer]
    /\ cache' = IF ~Has(cache, timers[t].key) THEN cache
                ELSE Cascade(Delete(cache, timers[t].key),
                             cache[timers[t].key].dependentKeys, 1)
    /\ grace' = Clock(Engine(cache, timers, gets), timers[t].key, FALSE).grace
    /\ ev' = [Event("timer") EXCEPT
                !.h = t, !.reads = <<timers[t].key>>,
                !.deps = IF Has(cache, timers[t].key)
                         THEN cache[timers[t].key].dependentKeys ELSE <<>>]
    /\ UNCHANGED <<gets, subscribers, keysRef, previousKeysRef, preloads,
                   effects, doSubscription>>

\* The 3 minutes of a timer that was cancelled are over: no code runs.
GraceElapses(key) ==
    /\ grace[key]
    /\ \A t \in DOMAIN timers : timers[t].key # key
    /\ grace' = [grace EXCEPT ![key] = FALSE]
    /\ ev' = [Event("elapse") EXCEPT !.reads = <<key>>]
    /\ UNCHANGED <<cache, timers, gets, subscribers, keysRef, previousKeysRef,
                   preloads, effects, doSubscription>>

\* The bodies of fn: reads through one api object, or a throw.
FnBodies(keySet, maxReads) == ReadSeqs(keySet, 1, maxReads) \cup {<<Throw>>}

\* a reset that also abandons the transport calls in flight
ResetAbandons ==
    /\ cache' = EmptyMap
    /\ gets' = [p \in DOMAIN gets |-> NoGet]
    /\ ev' = [Event("reset") EXCEPT !.deleted = DOMAIN cache]
    /\ UNCHANGED <<timers, subscribers, keysRef, previousKeysRef, grace,
                   preloads, effects, doSubscription>>

\* reset(): cache = new Map() (493-495).  The timers and the transport calls
\* of the entries of the old store go on.
Reset ==
    /\ cache' = EmptyMap
    /\ ev' = [Event("reset") EXCEPT !.deleted = DOMAIN cache]
    /\ UNCHANGED <<timers, gets, subscribers, keysRef, previousKeysRef, grace,
                   preloads, effects, doSubscription>>

\* cache.forEach(({ value }, key) => ...): the destructuring reads `value`,
\* and the accessor of an entry that holds an error throws (127-129, 539)
SaveRaises(value) == value.kind = "throw"

\* save(), from the i-th key of the store on (537-543): the save file, or the
\* error that reading an entry raised.
RECURSIVE saveFrom(_, _, _)
saveFrom(map, i, returned) ==
    IF i > Len(KeyOrder) THEN [end |-> "done", file |-> returned, res |-> <<>>]
    ELSE IF ~Has(map, KeyOrder[i]) THEN saveFrom(map, i + 1, returned)
    ELSE IF SaveRaises(map[KeyOrder[i]].value)
    THEN [end |-> "error", file |-> <<>>,
          res |-> <<RaisedError(map[KeyOrder[i]].value.id)>>]
    ELSE saveFrom(map, i + 1,
                  IF map[KeyOrder[i]].value # Undefined
                  THEN Put(returned, KeyOrder[i], map[KeyOrder[i]].value)
                  ELSE returned)

save(map) == saveFrom(map, 1, EmptyMap)

\* A call of save().
Save ==
    /\ ev' = [Event("save") EXCEPT
                !.end = save(cache).end, !.file = save(cache).file,
                !.res = save(cache).res]
    /\ UNCHANGED <<cache, timers, gets, subscribers, keysRef, previousKeysRef,
                   grace, preloads, effects, doSubscription>>

\* a restore that overwrites the entries it finds
RestoreAlways(map, key) == TRUE

\* if (!cache.has(key))
RestoreMisses(map, key) == ~Has(map, key)

\* restore(saveFile), from the i-th key on (545-557)
RECURSIVE restoreFrom(_, _, _)
restoreFrom(map, saveFile, i) ==
    IF i > Len(KeyOrder) THEN map
    ELSE restoreFrom(
            IF KeyOrder[i] \in DOMAIN saveFile /\ RestoreMisses(map, KeyOrder[i])
            THEN Put(map, KeyOrder[i],
                     Item(saveFile[KeyOrder[i]], 0, 0, <<>>, 0))
            ELSE map,
            saveFile, i + 1)

\* The save files given to restore: values and nulls for some keys.
SaveFiles(keySet) ==
    UNION {[ks -> {Data("plain"), Null}] : ks \in SUBSET keySet \ {{}}}

\* A call of restore(saveFile).
Restore(saveFile) ==
    /\ cache' = restoreFrom(cache, saveFile, 1)
    /\ ev' = [Event("restore") EXCEPT
                !.file = saveFile, !.created = DOMAIN saveFile \ DOMAIN cache]
    /\ UNCHANGED <<timers, gets, subscribers, keysRef, previousKeysRef, grace,
                   preloads, effects, doSubscription>>

\* The call of preload has come back to its caller and left the engine S.
Called(S, c, by, fn) ==
    /\ Apply(S)
    /\ keysRef' = [r \in DOMAIN keysRef |->
                    IF r = by THEN keysRef[r] \cup S.keys ELSE keysRef[r]]
    /\ ev' = [Event("preload") EXCEPT
                !.h = c, !.by = by, !.reads = fn, !.runs = S.runs]

\* A call of preload(fn) in slot c, up to its first await (520-535).  by: 0
\* when fn reads through the exported api object, r when it reads through the
\* api object that reader r got from useApi; the `keys` of that object are
\* keysRef.current of r.
Preload(c, by, fn) ==
    /\ preloads[c].status \notin {"waiting", "spinning"}
    /\ Called(PreloadTurn(
                [Engine(cache, timers, gets) EXCEPT
                    !.preloads[c] =
                        [fn |-> fn, by |-> by,
                         sus |-> by # 0 /\ by \notin subscribers,
                         status |-> "-", p |-> 0, reason |-> Undefined]],
                c),
              c, by, fn)
    /\ UNCHANGED <<subscribers, previousKeysRef, effects>>

\* The call of an api object has come back and left the engine call.S.
Returns(call, by, url) ==
    /\ Apply(call.S)
    /\ ev' = [Event("direct") EXCEPT
                !.by = by, !.reads = <<url>>, !.res = <<call.res>>,
                !.notes = call.S.notes]

\* A call through an api object outside a pass and outside preload.  by: 0
\* for the exported api object, r for the api object that reader r got from
\* useApi in a pass that has committed (its layout effect has lowered
\* isSuspending, 375-378).
Direct(by, url) ==
    /\ by # 0 => by \in subscribers \cup effects
    /\ Returns(IF by = 0 THEN ApiRead(Engine(cache, timers, gets), url)
               ELSE HookRead(Engine(cache, timers, gets), url, FALSE),
               by, url)
    /\ UNCHANGED <<subscribers, keysRef, previousKeysRef, effects>>

Next ==
    \/ \E r \in Readers, reads \in ReadSeqs({"/users/1"}, 0, MaxReads),
            useDefer \in BOOLEAN :
            Pass(r, reads, useDefer) /\ Within(MaxCount)'
    \/ \E r \in Readers : Unmount(r) /\ Within(MaxCount)'
    \/ \E matcher \in SUBSET {"/users/1"} : Touch(matcher)
    \/ \E p \in DOMAIN gets, response \in Responses : SettleLoad(p, response)
    \/ \E p \in DOMAIN gets, response \in Responses : SettleTouch(p, response)
    \/ \E t \in DOMAIN timers : TimerFire(t)
    \/ \E key \in DOMAIN grace : GraceElapses(key)

Spec == Init /\ [][Next]_vars

InitBatch ==
    /\ cache = EmptyMap
    /\ timers = [t \in 1..BatchTimers |-> NoTimer]
    /\ gets = [p \in 1..BatchGets |-> NoGet]
    /\ subscribers = {}
    /\ keysRef = [r \in Readers |-> {}]
    /\ previousKeysRef = [r \in Readers |-> {}]
    /\ grace = [k \in {} |-> FALSE]
    /\ preloads = [c \in 1..MaxPreloads |-> NoPreload]
    /\ effects = {}
    /\ doSubscription = TRUE
    /\ ev = Event("init")

NextBatch ==
    \/ \E reads \in ReadSeqs(Keys, 1, BatchReads) :
            Pass(1, reads, FALSE) /\ Within(BatchCount)'
    \/ Unmount(1) /\ Within(BatchCount)'
    \/ \E matcher \in SUBSET Keys : Touching(gets) = {} /\ Touch(matcher)
    \/ \E p \in DOMAIN gets :
            \E response \in TypedResponses(gets[p].key) : SettleLoad(p, response)
    \/ \E p \in DOMAIN gets :
            \E response \in TypedResponses(gets[p].key) : SettleTouch(p, response)
    \/ \E t \in DOMAIN timers : TimerFire(t)

SpecBatch == InitBatch /\ [][NextBatch]_vars

\* A server that always answers, and touch calls that overlap.
OkResponses(key) == {response \in TypedResponses(key) : response.status = 200}

NextTouch ==
    \/ \E reads \in ReadSeqs(Keys, 0, BatchReads) :
            Pass(1, reads, FALSE) /\ Within(BatchCount)'
    \/ Unmount(1) /\ Within(BatchCount)'
    \/ \E matcher \in SUBSET Keys : Touch(matcher)
    \/ \E p \in DOMAIN gets :
            \E response \in OkResponses(gets[p].key) : SettleLoad(p, response)
    \/ \E p \in DOMAIN gets :
            \E response \in OkResponses(gets[p].key) : SettleTouch(p, response)
    \/ \E t \in DOMAIN timers : TimerFire(t)

SpecTouch == InitBatch /\ [][NextTouch]_vars

\* One reader of one resource, preload calls, resets and calls of the exported
\* api object.
NextPreload ==
    \/ \E reads \in ReadSeqs({"/users/1"}, 0, BatchReads) :
            Pass(1, reads, FALSE) /\ Within(BatchCount)'
    \/ Unmount(1) /\ Within(BatchCount)'
    \/ \E matcher \in SUBSET {"/users/1"} : Touch(matcher)
    \/ \E p \in DOMAIN gets :
            \E response \in TypedResponses(gets[p].key) : SettleLoad(p, response)
    \/ \E p \in DOMAIN gets :
            \E response \in TypedResponses(gets[p].key) : SettleTouch(p, response)
    \/ \E t \in DOMAIN timers : TimerFire(t)
    \/ Reset
    \/ \E c \in DOMAIN preloads, by \in {0, 1},
            fn \in FnBodies({"/users/1"}, BatchReads) : Preload(c, by, fn)
    \/ \E by \in {0, 1} : Direct(by, "/users/1")

SpecPreload == InitBatch /\ [][NextPreload]_vars

\* Readers that read with defer, and commits that leave the mount effect to a
\* task of its own: a response may arrive between the commit and that task.
NextDefer ==
    \/ \E r \in Readers, reads \in ReadSeqs({"/users/1"}, 0, MaxReads) :
            PassDeferred(r, reads, TRUE) /\ Within(MaxCount)'
    \/ \E r \in Readers : FlushEffects(r)
    \/ \E r \in Readers : Unmount(r) /\ Within(MaxCount)'
    \/ \E matcher \in SUBSET {"/users/1"} : Touch(matcher)
    \/ \E p \in DOMAIN gets, response \in Responses : SettleLoad(p, response)
    \/ \E p \in DOMAIN gets, response \in Responses : SettleTouch(p, response)

SpecDefer == Init /\ [][NextDefer]_vars

\* One reader of one resource with save, restore and reset, and room for a
\* timer that outlives the entry it was armed for.
StoreInit ==
    /\ cache = EmptyMap
    /\ timers = [t \in 1..StoreTimers |-> NoTimer]
    /\ gets = [p \in 1..BatchGets |-> NoGet]
    /\ subscribers = {}
    /\ keysRef = [r \in Readers |-> {}]
    /\ previousKeysRef = [r \in Readers |-> {}]
    /\ grace = [k \in {} |-> FALSE]
    /\ preloads = [c \in 1..MaxPreloads |-> NoPreload]
    /\ effects = {}
    /\ doSubscription = TRUE
    /\ ev = Event("init")

NextStore ==
    \/ \E reads \in ReadSeqs({"/users/1"}, 0, BatchReads), useDefer \in BOOLEAN :
            Pass(1, reads, useDefer) /\ Within(BatchCount)'
    \/ Unmount(1) /\ Within(BatchCount)'
    \/ \E matcher \in SUBSET {"/users/1"} : Touch(matcher)
    \/ \E p \in DOMAIN gets :
            \E response \in TypedResponses(gets[p].key) : SettleLoad(p, response)
    \/ \E p \in DOMAIN gets :
            \E response \in TypedResponses(gets[p].key) : SettleTouch(p, response)
    \/ \E t \in DOMAIN timers : TimerFire(t)
    \/ Reset
    \/ Save
    \/ \E saveFile \in SaveFiles({"/users/1"}) : Restore(saveFile)

SpecStore == StoreInit /\ [][NextStore]_vars

\* the responses that carry a value
ValueResponses == {response \in Responses : response.status = 200}

\* One reader of two resources on a server whose answers keep no type: the
\* value of a key may carry the entity at one time and nothing at another.
NextUntyped ==
    \/ \E reads \in ReadSeqs(Keys, 1, BatchReads) :
            Pass(1, reads, FALSE) /\ Within(BatchCount)'
    \/ Unmount(1) /\ Within(BatchCount)'
    \/ \E matcher \in SUBSET Keys : Touching(gets) = {} /\ Touch(matcher)
    \/ \E p \in DOMAIN gets, response \in ValueResponses :
            SettleLoad(p, response)
    \/ \E p \in DOMAIN gets, response \in ValueResponses :
            SettleTouch(p, response)
    \/ \E t \in DOMAIN timers : TimerFire(t)

SpecUntyped == InitBatch /\ [][NextUntyped]_vars

\* Two readers of one resource and resets, within the grace period of every
\* timer: an entry leaves the store only by reset.
NextReset ==
    \/ \E r \in Readers, reads \in ReadSeqs({"/users/1"}, 0, BatchReads),
            useDefer \in BOOLEAN :
            Pass(r, reads, useDefer) /\ Within(MaxCount)'
    \/ \E r \in Readers : Unmount(r) /\ Within(MaxCount)'
    \/ \E p \in DOMAIN gets, response \in Responses : SettleLoad(p, response)
    \/ Reset

SpecReset == InitBatch /\ [][NextReset]_vars

\* One reader of a list and of the entity it carries, with a timer for each:
\* the timer of the list may fire while that of the entity is pending.
NextCascade ==
    \/ \E reads \in ReadSeqs(Keys, 0, BatchReads) :
            Pass(1, reads, FALSE) /\ Within(BatchCount)'
    \/ Unmount(1) /\ Within(BatchCount)'
    \/ \E p \in DOMAIN gets :
            \E response \in OkResponses(gets[p].key) : SettleLoad(p, response)
    \/ \E t \in DOMAIN timers : TimerFire(t)

SpecCascade == StoreInit /\ [][NextCascade]_vars

\* Preload calls over two resources on a server that answers every GET with a
\* value, with touches and resets.
NextRetry ==
    \/ \E c \in DOMAIN preloads, fn \in FnBodies(Keys, BatchReads) :
            Preload(c, 0, fn)
    \/ \E matcher \in SUBSET Keys : Touch(matcher)
    \/ \E p \in DOMAIN gets, response \in ValueResponses :
            SettleLoad(p, response)
    \/ Reset

\* the GET of handle p awaits its response
InFlight(p) == gets[p].kind = "load" /\ gets[p].status = "flight"

\* the step is the arrival of the response to the GET of handle p
Answers(p) == ev'.op = "settleLoad" /\ ev'.h = p

\* A step in which the GET of handle p is answered.  The first disjunct is a
\* case of the second, written as assignments: it makes the action enabled
\* exactly while the GET is in flight.
Settles(p) ==
    /\ InFlight(p)
    /\ \/ /\ ev' = [Event("settleLoad") EXCEPT !.h = p]
          /\ UNCHANGED <<cache, timers, gets, subscribers, keysRef,
                         previousKeysRef, grace, preloads, effects, doSubscription>>
       \/ Answers(p)

\* The transport answers every GET in the end: weak fairness of the response
\* to the GET of each handle.
Settling == \A p \in 1..BatchGets : WF_vars(Settles(p))

SpecRetry == InitBatch /\ [][NextRetry]_vars /\ Settling

\* A preload call whose loop turns on every microtask: the microtask queue
\* never empties, so no task (response, timer, event handler, render) runs.
Starved == \E c \in DOMAIN preloads : preloads[c].status = "spinning"

LiveInit ==
    /\ cache = EmptyMap
    /\ timers = [t \in 1..BatchTimers |-> NoTimer]
    /\ gets = [p \in 1..LiveGets |-> NoGet]
    /\ subscribers = {}
    /\ keysRef = [r \in Readers |-> {}]
    /\ previousKeysRef = [r \in Readers |-> {}]
    /\ grace = [k \in {} |-> FALSE]
    /\ preloads = [c \in 1..MaxPreloads |-> NoPreload]
    /\ effects = {}
    /\ doSubscription = TRUE
    /\ ev = Event("init")

\* One reader that reads two resources with defer, touches of every key, and
\* preload calls of one read, on a server that answers every GET with a value
\* of the resource's type.
NextLive ==
    \/ \E reads \in ReadSeqs(Keys, 1, BatchReads) :
            ~Starved /\ Pass(1, reads, TRUE) /\ Within(BatchCount)'
    \/ ~Starved /\ Touching(gets) = {} /\ Touch(Keys)
    \/ \E p \in DOMAIN gets :
            \E response \in OkResponses(gets[p].key) :
                ~Starved /\ SettleLoad(p, response)
    \/ \E p \in DOMAIN gets :
            \E response \in OkResponses(gets[p].key) :
                ~Starved /\ SettleTouch(p, response)
    \/ \E c \in DOMAIN preloads, fn \in ReadSeqs(Keys, 1, 1) :
            ~Starved /\ Preload(c, 0, fn)

\* the step is the arrival of the response to GET p, of a load or of a touch
Arrives(p) == ev'.op \in {"settleLoad", "settleTouch"} /\ ev'.h = p

\* A step in which the response to GET p is handled: the task of the response
\* runs when the event loop turns.  The first disjunct is a case of the
\* second, written as assignments: it makes the action enabled exactly while
\* the GET is in flight and the event loop turns.
Delivers(p) ==
    /\ ~Starved
    /\ gets[p].status = "flight"
    /\ \/ /\ ev' = [Event(IF gets[p].kind = "load" THEN "settleLoad"
                           ELSE "settleTouch") EXCEPT !.h = p]
          /\ UNCHANGED <<cache, timers, gets, subscribers, keysRef,
                         previousKeysRef, grace, preloads, effects, doSubscription>>
       \/ Arrives(p)

\* The transport answers every GET in the end.
Delivering == \A p \in 1..LiveGets : WF_vars(Delivers(p))

SpecLive == LiveInit /\ [][NextLive]_vars /\ Delivering

PairInit ==
    /\ cache = EmptyMap
    /\ timers = [t \in 1..BatchTimers |-> NoTimer]
    /\ gets = [p \in 1..BatchGets |-> NoGet]
    /\ subscribers = {}
    /\ keysRef = [r \in Readers |-> {}]
    /\ previousKeysRef = [r \in Readers |-> {}]
    /\ grace = [k \in {} |-> FALSE]
    /\ preloads = [c \in 1..PairPreloads |-> NoPreload]
    /\ effects = {}
    /\ doSubscription = TRUE
    /\ ev = Event("init")

\* Two preload calls at a time, made through the api object of reader 1,
\* beside the passes of that reader and direct calls, over two resources.
NextPair ==
    \/ \E reads \in ReadSeqs(Keys, 0, 1) :
            Pass(1, reads, FALSE) /\ Within(BatchCount)'
    \/ \E p \in DOMAIN gets :
            \E response \in OkResponses(gets[p].key) : SettleLoad(p, response)
    \/ \E c \in DOMAIN preloads, fn \in ReadSeqs(Keys, 1, 1) :
            Preload(c, 1, fn)
    \/ \E by \in {0, 1}, url \in Keys : Direct(by, url)

SpecPair == PairInit /\ [][NextPair]_vars

\* ==================================================================== claims
\* What a step did, read off the step.
NewGets == {p \in DOMAIN gets : gets[p].key = NoKey /\ gets'[p].key # NoKey}

NewGetsFor(key) == {p \in NewGets : gets'[p].key = key}

\* the step is an evaluation pass whose first read is of key
PassReading(key) ==
    ev'.op = "pass" /\ ev'.reads # <<>> /\ ev'.reads[1] = key

LoadsInFlight(key) ==
    {p \in DOMAIN gets :
        gets[p].kind = "load" /\ gets[p].key = key /\ gets[p].status = "flight"}

NoCachedValue(key) == ~Has(cache, key) \/ cache[key].value = Undefined

HoldsValue(key) == Has(cache, key) /\ cache[key].value.kind \in {"data", "null"}

UsedGets == {p \in DOMAIN gets : gets[p].key # NoKey}

\* C1 as stated: coalescing.  While key has no cached value and a load fetch
\* of key has not settled, a read of key issues no transport GET and raises
\* the future of that fetch.
C1_Coalescing ==
    [][\A key \in Keys :
        (LoadsInFlight(key) # {} /\ NoCachedValue(key) /\ PassReading(key))
            => /\ NewGetsFor(key) = {}
               /\ \A i \in DOMAIN ev'.res :
                    /\ ev'.res[i].kind = "pending"
                    /\ ev'.res[i].p \in LoadsInFlight(key)]_vars

\* the entry of key holds no value and the future of an unsettled load of key
HoldsLoadFuture(key) ==
    /\ Has(cache, key)
    /\ cache[key].value = Undefined
    /\ cache[key].promise \in LoadsInFlight(key)

\* C1, amended: coalescing while the entry is kept.  A read of a key that has
\* no entry issues exactly one GET for it and raises the future of that GET;
\* as long as the entry of the key holds that future (no touch and no deletion
\* timer has deleted the entry, no touch has given it a refetch future), every
\* read of the key issues no GET and raises that same future; when the fetch
\* resolves, its value is the cached value and every read returns it.
C1_CoalescingWhileEntryKept ==
    [][\A key \in Keys :
        /\ (PassReading(key) /\ ~Has(cache, key))
            => /\ Cardinality(NewGetsFor(key)) = 1
               /\ \A p \in NewGetsFor(key) :
                    /\ gets'[p] = NewGet(key, "load", 0, 0)
                    /\ \A i \in DOMAIN ev'.res :
                        ev'.reads[i] = key => ev'.res[i] = RaisedPending(p)
        /\ (PassReading(key) /\ HoldsLoadFuture(key))
            => /\ NewGetsFor(key) = {}
               /\ \A i \in DOMAIN ev'.res :
                    ev'.reads[i] = key
                        => ev'.res[i] = RaisedPending(cache[key].promise)
        /\ (/\ ev'.op = "settleLoad" /\ ev'.status = 200
            /\ HoldsLoadFuture(key) /\ cache[key].promise = ev'.h)
            => /\ cache'[key].value.kind = "data"
               /\ cache'[key].promise = 0
        /\ (PassReading(key) /\ HoldsValue(key))
            => /\ NewGetsFor(key) = {}
               /\ \A i \in DOMAIN ev'.res :
                    ev'.reads[i] = key => ev'.res[i] = Returned(cache[key].value)
       ]_vars

\* two reads of one pass of reader 2 have raised the future of the one GET
\* that is in flight
C1_Witness ==
    /\ ev.op = "pass" /\ ev.r = 2 /\ Len(ev.res) = 2
    /\ ev.res[1].kind = "pending"
    /\ ev.res[2] = ev.res[1]
    /\ UsedGets = {ev.res[1].p}
    /\ gets[ev.res[1].p].kind = "load"
    /\ gets[ev.res[1].p].status = "flight"

\* the refetches of the touch call that the refetch p belongs to
BatchOf(p) == {q \in DOMAIN gets : gets[q].touch = gets[p].touch}

\* the result of refetch q when the response of this step is the one to p
ResultOf(q) ==
    IF q = ev'.h
    THEN RefreshResult([status |-> ev'.status, data |-> ev'.data], q)
    ELSE gets[q].outcome

\* what setKey leaves as the value of an entry written with result
Written(result) ==
    IF result.kind = "errobj" THEN Thrower(result.id) ELSE result

NotesAbout(notes, key) == {i \in DOMAIN notes : notes[i][2] = key}

\* C2: atomic touch.  A response to one refetch of a touch call, while another
\* refetch of the same call is unsettled, writes nothing to the store and
\* notifies no listener; the response that settles the last refetch writes the
\* result of every refetch of the call and notifies every listener about
\* every key of the batch, in that one step.
C2_AtomicTouch ==
    [][ev'.op = "settleTouch" =>
        IF \E q \in BatchOf(ev'.h) \ {ev'.h} : gets[q].status = "flight"
        THEN /\ cache' = cache
             /\ timers' = timers
             /\ ev'.notes = <<>>
        ELSE \A q \in BatchOf(ev'.h) :
                /\ gets'[q] = NoGet
                /\ Has(cache', gets[q].key)
                /\ cache'[gets[q].key].promise = 0
                /\ cache'[gets[q].key].value = Written(ResultOf(q))
                /\ \A r \in subscribers :
                    \E i \in NotesAbout(ev'.notes, gets[q].key) :
                        ev'.notes[i][1] = r
       ]_vars

\* the fast refetch of a touch has its result, the slow one of the same touch
\* is unsettled, and the entry of the fast key still waits
C2_Witness ==
    /\ ev.op = "settleTouch"
    /\ gets[ev.h].status = "held"
    /\ \E q \in DOMAIN gets :
        /\ q # ev.h
        /\ gets[q].touch = gets[ev.h].touch
        /\ gets[q].status = "flight"
    /\ cache[gets[ev.h].key].promise = ev.h
    /\ subscribers # {}

C4_DeletedAfterGrace ==
    [][\A key \in DOMAIN grace :
        /\ (grace[key] /\ ev'.op \in {"timer", "elapse"} /\ ev'.reads = <<key>>)
            => ~Has(cache', key)
        /\ (PassReading(key) /\ ~Has(cache, key))
            => Cardinality(NewGetsFor(key)) = 1
       ]_vars

Range(seq) == {seq[i] : i \in DOMAIN seq}

\* C5: cascade deletion.  The step in which the deletion timer of a key fires
\* deletes the entry of the key and, of the keys in its dependentKeys, exactly
\* those whose subscribersCount is 0 or less; every other entry, a dependent
\* with subscribers included, is left as it was.
C5_CascadeDeletion ==
    [][(ev'.op = "timer" /\ Has(cache, ev'.reads[1])) =>
        LET key == ev'.reads[1]
            dependentKeys == Range(cache[key].dependentKeys)
        IN  /\ ~Has(cache', key)
            /\ \A d \in DOMAIN cache \ {key} :
                IF d \in dependentKeys /\ cache[d].subscribersCount <= 0
                THEN ~Has(cache', d)
                ELSE Has(cache', d) /\ cache'[d] = cache[d]
            /\ DOMAIN cache' \subseteq DOMAIN cache
       ]_vars

\* the timer of the list has fired and the entity the list carries, which a
\* reader still reads, is in the store
C5_Witness ==
    /\ ev.op = "timer" /\ ev.reads = <<"/users">>
    /\ ev.deps = <<"/users/1">>
    /\ ~Has(cache, "/users")
    /\ Has(cache, "/users/1")
    /\ cache["/users/1"].subscribersCount > 0

ErrorCached(key) == Has(cache, key) /\ cache[key].value.kind = "throw"

\* a load of key fails with a status other than 404: its error is cached
LoadFailureCached(key) ==
    (ev'.op = "settleLoad" /\ ev'.status = 500 /\ ev'.reads = <<key>>)
        => cache'[key].value = Thrower(ev'.h) /\ cache'[key].promise = 0

\* a read of a key whose error is cached raises that error, with no GET
ErrorRaised(key) ==
    (ErrorCached(key) /\ PassReading(key))
        => /\ NewGets = {}
           /\ ev'.res = <<RaisedError(cache[key].value.id)>>
           /\ ev'.end = "error"
           /\ cache'[key].value = cache[key].value

\* the step is one in which setKey writes key
Writes(key) ==
    /\ Has(cache', key)
    /\ ev'.op \in {"settleLoad", "settleTouch", "touch"}

LastOfTouch ==
    /\ ev'.op = "settleTouch"
    /\ \A q \in BatchOf(ev'.h) \ {ev'.h} : gets[q].status # "flight"

\* C7: 404 semantics.  A load that fails with 404 caches null; a read of a key
\* whose value is null returns null, raises nothing and issues no GET; a touch
\* that matches a subscribed key refetches it, and a refetch that fails with
\* 404 leaves null, not an error, as the value of the key.
C7_NotFoundIsNull ==
    [][\A key \in Keys :
        /\ (ev'.op = "settleLoad" /\ ev'.status = 404 /\ ev'.reads = <<key>>)
            => cache'[key].value = Null /\ cache'[key].promise = 0
        /\ (PassReading(key) /\ Has(cache, key) /\ cache[key].value = Null)
            => /\ NewGetsFor(key) = {}
               /\ \A i \in DOMAIN ev'.res :
                    ev'.reads[i] = key => ev'.res[i] = Returned(Null)
        /\ (/\ ev'.op = "touch" /\ key \in ev'.matcher
            /\ Has(cache, key) /\ cache[key].subscribersCount > 0)
            => /\ Cardinality(NewGetsFor(key)) = 1
               /\ cache'[key].value = getMaybeError(cache[key].value)
        /\ (LastOfTouch /\ ev'.status = 404 /\ ev'.reads = <<key>>)
            => cache'[key].value = Null /\ cache'[key].promise = 0
       ]_vars

\* the refetch of a key whose value was null has failed with 404 again: the
\* value is still null
C7_Witness ==
    /\ ev.op = "settleTouch" /\ ev.status = 404
    /\ ev.old = Null
    /\ cache[ev.reads[1]].value = Null
    /\ cache[ev.reads[1]].promise = 0
    /\ cache[ev.reads[1]].subscribersCount > 0

\* C8: touch partition.  A call of touchWithMatcher looks at every key of the
\* store.  A match with subscribersCount 0 (or less) is deleted in the call,
\* its deletion timer is cancelled and no GET is issued for it; for a match
\* with subscribers exactly one GET is issued, whether or not a fetch of the
\* key is in flight already, and the entry waits for it; an entry that does
\* not match is left as it was, with its timer, and gets no GET.
C8_TouchPartition ==
    [][ev'.op = "touch" =>
        /\ DOMAIN cache' \subseteq DOMAIN cache
        /\ \A p \in NewGets : gets'[p].kind = "touch"
        /\ \A key \in DOMAIN cache :
            IF key \notin ev'.matcher
            THEN /\ Has(cache', key) /\ cache'[key] = cache[key]
                 /\ NewGetsFor(key) = {}
                 /\ cache[key].deletionTimeout # 0
                        => timers'[cache[key].deletionTimeout]
                                = timers[cache[key].deletionTimeout]
            ELSE IF cache[key].subscribersCount <= 0
            THEN /\ ~Has(cache', key)
                 /\ NewGetsFor(key) = {}
                 /\ cache[key].deletionTimeout # 0
                        => timers'[cache[key].deletionTimeout] = NoTimer
            ELSE /\ Cardinality(NewGetsFor(key)) = 1
                 /\ Has(cache', key)
                 /\ cache'[key].promise \in NewGetsFor(key)
                 /\ cache'[key].subscribersCount = cache[key].subscribersCount
       ]_vars

\* one call of touch has deleted the entity, which nobody read, and has issued
\* a second GET for the list while the first was in flight
C8_Witness ==
    /\ ev.op = "touch" /\ ev.matcher = Keys
    /\ ev.deleted = {"/users/1"}
    /\ ev.reads = <<"/users">>
    /\ ~Has(cache, "/users/1")
    /\ Cardinality({p \in DOMAIN gets :
            gets[p].key = "/users" /\ gets[p].status = "flight"}) = 2

\* C9: touch failure isolation.  A refetch that fails with an error other
\* than 404 does not end its touch call: the other refetches of the call stay
\* as they are, and when the last one settles every key of the call is
\* written with its own result, the failed key with its error.
C9_TouchFailureIsolation ==
    [][(ev'.op = "settleTouch"
            /\ \E q \in BatchOf(ev'.h) : ResultOf(q).kind = "errobj") =>
        IF LastOfTouch
        THEN \A q \in BatchOf(ev'.h) :
                /\ gets'[q] = NoGet
                /\ Has(cache', gets[q].key)
                /\ cache'[gets[q].key].value = Written(ResultOf(q))
                /\ cache'[gets[q].key].promise = 0
        ELSE \A q \in BatchOf(ev'.h) \ {ev'.h} : gets'[q] = gets[q]
       ]_vars

\* a touch of the list and the entity has completed: one key holds the error
\* of its refetch, the other the value of its own
C9_Witness ==
    /\ ev.op = "settleTouch"
    /\ {ev.notes[i][2] : i \in DOMAIN ev.notes} = Keys
    /\ UsedGets = {}
    /\ \E k \in Keys : cache[k].value.kind = "throw" /\ cache[k].promise = 0
    /\ \E k \in Keys : cache[k].value.kind = "data" /\ cache[k].promise = 0

\* key has a cached value and a refetch of a touch for it has not been written
Refreshing(key) ==
    /\ HoldsValue(key)
    /\ \E p \in DOMAIN gets : gets[p].kind = "touch" /\ gets[p].key = key

\* C10: refresh without flicker.  The start of a touch refetch leaves the
\* cached value of the key in its entry; while the refetch is unsettled a read
\* of the key returns that value, raises no pending signal and issues no GET.
C10_RefreshWithoutFlicker ==
    [][\A key \in Keys :
        /\ (ev'.op = "touch" /\ key \in Range(ev'.reads) /\ HoldsValue(key))
            => /\ cache'[key].value = cache[key].value
               /\ cache'[key].promise \in NewGetsFor(key)
               /\ Refreshing(key)'
        /\ (PassReading(key) /\ Refreshing(key))
            => /\ NewGetsFor(key) = {}
               /\ \A i \in DOMAIN ev'.res :
                    ev'.reads[i] = key
                        => ev'.res[i] = Returned(cache[key].value)
       ]_vars

\* a pass has read a key while its touch refetch was unsettled and got the
\* cached value; the refetch is still the only GET
C10_Witness ==
    /\ ev.op = "pass" /\ ev.end = "done" /\ ev.reads # <<>>
    /\ ev.res[1].kind = "value"
    /\ cache[ev.reads[1]].promise # 0
    /\ UsedGets = {cache[ev.reads[1]].promise}
    /\ gets[cache[ev.reads[1]].promise].kind = "touch"
    /\ gets[cache[ev.reads[1]].promise].status = "flight"

\* the readers whose subscription is registered and whose interest set has key
SubscribedTo(key) == {r \in subscribers : key \in keysRef[r]}

\* the listener invocations of the step that made reader r evaluate again
\* because key changed
Updates(notes, r, key) == {i \in DOMAIN notes : notes[i] = <<r, key, TRUE>>}

\* C11: the end-to-end scenario.  A suspending read of a key that has no
\* entry raises a pending signal and issues one GET; when the GET resolves
\* with v1, v1 is the cached value; the retry read then returns v1 with no
\* transport call and subscribes its reader; a touch that matches the key
\* then issues exactly one refetch for it; when the refetch resolves with v2,
\* v2 is the cached value and every reader subscribed to the key is notified
\* of the key exactly once in that step.
C11_Scenario ==
    [][\A key \in Keys :
        /\ (PassReading(key) /\ ~Has(cache, key))
            => /\ Cardinality(NewGets) = 1
               /\ \A p \in NewGets :
                    /\ gets'[p] = NewGet(key, "load", 0, 0)
                    /\ ev'.res[1] = RaisedPending(p)
                    /\ HoldsLoadFuture(key)' /\ cache'[key].promise = p
        /\ (/\ ev'.op = "settleLoad" /\ ev'.status = 200
            /\ ev'.reads = <<key>>
            /\ HoldsLoadFuture(key) /\ cache[key].promise = ev'.h)
            => /\ cache'[key].value = Data(ev'.data)
               /\ cache'[key].promise = 0
               /\ cache'[key].subscribersCount = cache[key].subscribersCount
        /\ (/\ PassReading(key) /\ Has(cache, key)
            /\ cache[key].value.kind = "data" /\ cache[key].promise = 0)
            => /\ NewGets = {}
               /\ \A i \in DOMAIN ev'.res :
                    ev'.reads[i] = key => ev'.res[i] = Returned(cache[key].value)
               /\ (ev'.r \notin subscribers /\ ev'.end = "done")
                    => /\ cache'[key].subscribersCount
                            = cache[key].subscribersCount + 1
                       /\ ev'.r \in SubscribedTo(key)'
        /\ (/\ ev'.op = "touch" /\ key \in ev'.matcher /\ Has(cache, key)
            /\ cache[key].value.kind = "data"
            /\ cache[key].subscribersCount >= 1)
            => /\ Cardinality(NewGetsFor(key)) = 1
               /\ \A p \in NewGetsFor(key) : gets'[p].kind = "touch"
               /\ ev'.notes = <<>>
        /\ (LastOfTouch /\ ev'.status = 200 /\ ev'.reads = <<key>>)
            => /\ cache'[key].value = Data(ev'.data)
               /\ cache'[key].promise = 0
               /\ \A r \in SubscribedTo(key) :
                    Cardinality(Updates(ev'.notes, r, key)) = 1
                        /\ Cardinality({i \in NotesAbout(ev'.notes, key) :
                                            ev'.notes[i][1] = r}) = 1
       ]_vars

\* the refetch of a touch has replaced the value that two subscribed readers
\* had read by another one, and both have been notified
C11_Witness ==
    /\ ev.op = "settleTouch" /\ ev.status = 200
    /\ ev.old.kind = "data"
    /\ cache[ev.reads[1]].value.kind = "data"
    /\ cache[ev.reads[1]].value # ev.old
    /\ cache[ev.reads[1]].subscribersCount = 2
    /\ Len(ev.notes) = 2
    /\ \A r \in Readers : Cardinality(Updates(ev.notes, r, ev.reads[1])) = 1

\* the transport GETs for key that have no response yet
Unsettled(key) ==
    {p \in DOMAIN gets : gets[p].key = key /\ gets[p].status = "flight"}

\* C12 as stated: in every reachable state there is, for every key, at most
\* one unsettled fetch for that key.
C12_OneUnsettledFetch ==
    \A key \in Keys : Cardinality(Unsettled(key)) <= 1

\* C12, amended: at most one unsettled fetch per entry.  The future that the
\* entry of a key holds is that of an unsettled fetch for the key or of a
\* refetch whose touch has not written yet; a read, in a pass or in preload,
\* of a key whose entry is in the store issues no fetch while a fetch for the
\* key is unsettled; a step that issues a fetch for a key while another one
\* is unsettled is a touch, which issues one refetch, or a read of a key whose
\* entry a touch, a deletion timer or a reset has removed.
C12_OneFetchPerEntry ==
    [][\A key \in Keys :
        /\ Cardinality(NewGetsFor(key)) <= 1
        /\ (Has(cache, key) /\ cache[key].promise # 0)
            => /\ gets[cache[key].promise].key = key
               /\ gets[cache[key].promise].status \in {"flight", "held"}
        /\ (NewGetsFor(key) # {} /\ Unsettled(key) # {})
            => \/ ev'.op = "touch" /\ key \in Range(ev'.reads)
               \/ /\ ev'.op \in {"pass", "preload", "settleLoad"}
                  /\ ~Has(cache, key)
       ]_vars

\* a pass has issued a second GET for a key whose first GET, issued by
\* preload, has no response yet: the entry that held the first future is gone
C12_Witness ==
    /\ ev.op = "pass" /\ ev.reads # <<>>
    /\ Cardinality(Unsettled(ev.reads[1])) = 2
    /\ Has(cache, ev.reads[1])
    /\ \E c \in DOMAIN preloads :
        /\ preloads[c].status = "waiting"
        /\ gets[preloads[c].p].status = "flight"
        /\ cache[ev.reads[1]].promise # preloads[c].p

\* C13: in every reachable state the subscribersCount of every entry is 0 or
\* more, whatever passes (suspended ones included), commits, unmounts,
\* touches and timer firings came before.
C13_CountNeverNegative ==
    \A key \in DOMAIN cache : cache[key].subscribersCount >= 0

\* the step writes, with setKey, a value to key that carries the derived key d
WritesCarrier(key, d) ==
    /\ ev'.status = 200
    /\ ev'.reads = <<key>>
    /\ d \in Range(deduplicationStrategy(Data(ev'.data)))
    /\ \/ ev'.op = "settleLoad"
       \/ LastOfTouch /\ \A q \in BatchOf(ev'.h) : gets[q].key # d

\* C14: deduplication hit.  A successful write of a value to K whose extractor
\* yields a derived key D that is not in the store creates the entry of D
\* with the derived value, no future and no subscriber; a read of D that
\* finds this entry returns the derived value, raises no pending signal and
\* issues no transport call.
C14_DeduplicationHit ==
    [][\A key \in Keys, d \in Keys :
        /\ (WritesCarrier(key, d) /\ ~Has(cache, d))
            => /\ Has(cache', d)
               /\ cache'[d] = Item(DerivedValue(Data(ev'.data), d), 0, 0, <<>>, 0)
        /\ (/\ ev'.op = "pass" /\ Has(cache, d)
            /\ cache[d].value.kind = "data" /\ cache[d].promise = 0)
            => /\ NewGetsFor(d) = {}
               /\ \A i \in DOMAIN ev'.res :
                    ev'.reads[i] = d => ev'.res[i] = Returned(cache[d].value)
       ]_vars

\* a pass has read the list and then the entity the list carries and got
\* both values; the list names the entity as its dependent, and no GET is
\* under way
C14_Witness ==
    /\ ev.op = "pass" /\ ev.end = "done"
    /\ ev.reads = <<"/users", "/users/1">>
    /\ ev.res = <<Returned(Data("list")), Returned(Data("plain"))>>
    /\ cache["/users"].dependentKeys = <<"/users/1">>
    /\ cache["/users/1"].subscribersCount = 1
    /\ UsedGets = {}

\* the step ran fn inside preload: a call of preload, or the response that a
\* preload call awaited
RunsFn == ev'.runs # <<>> /\ ev'.op \in {"preload", "settleLoad"}

\* C15: preload does not subscribe.  A step in which preload runs fn, through
\* the exported api object or through the api object of a reader, leaves
\* every interest set as it was and changes no subscribersCount (an entry it
\* creates has count 0).  Consequently a touch of a preloaded key does not
\* make the reader that called preload evaluate again: a match that nobody
\* subscribes to is deleted with no listener invoked, and the write of a
\* refetch calls forceUpdate only for readers whose interest set has the key.
C15_PreloadDoesNotSubscribe ==
    [][/\ RunsFn
            => /\ keysRef' = keysRef
               /\ previousKeysRef' = previousKeysRef
               /\ subscribers' = subscribers
               /\ \A key \in DOMAIN cache' :
                    cache'[key].subscribersCount
                        = IF Has(cache, key) THEN cache[key].subscribersCount
                          ELSE 0
       /\ ev'.op = "touch"
            => \A key \in ev'.deleted : NotesAbout(ev'.notes, key) = {}
       /\ ev'.op \in {"touch", "settleTouch", "settleLoad"}
            => \A r \in Readers, key \in Keys :
                    key \notin keysRef[r] => Updates(ev'.notes, r, key) = {}
      ]_vars

\* reader 1 is mounted and reads nothing; the preload it called through its
\* own api object has resolved; a touch has deleted the preloaded key, and no
\* listener was invoked
C15_Witness ==
    /\ ev.op = "touch" /\ ev.deleted = {"/users/1"} /\ ev.notes = <<>>
    /\ subscribers = {1} /\ keysRef[1] = {}
    /\ \E c \in DOMAIN preloads :
        /\ preloads[c].by = 1
        /\ preloads[c].fn = <<"/users/1">>
        /\ preloads[c].status = "resolved"

\* the calls of fn that the step made for preload call c
RunsOf(c) == {i \in DOMAIN ev'.runs : ev'.runs[i].c = c}

\* the step calls the fn of preload call c once, from its start, and leaves
\* the call resolved when fn returned, awaiting the future that fn raised
\* when it raised one
TurnsOnce(c) ==
    /\ Cardinality(RunsOf(c)) = 1
    /\ \A i \in RunsOf(c) :
        LET run == ev'.runs[i]
        IN  /\ Len(run.res) >= 1 \/ preloads'[c].fn = <<>>
            /\ \A j \in 1..(Len(run.res) - 1) : run.res[j].kind = "value"
            /\ run.end = "done"
                => /\ Len(run.res) = Len(preloads'[c].fn)
                   /\ preloads'[c].status = "resolved"
            /\ run.end = "suspended"
                => /\ preloads'[c].status = "waiting"
                   /\ preloads'[c].p = run.res[Len(run.res)].p
                   /\ gets'[preloads'[c].p].status = "flight"
            /\ preloads'[c].status = "resolved" => run.end = "done"

\* the retry loop, step by step: a call of preload calls fn; a call that
\* awaits a future stays as it is, and fn is not called, until that future
\* settles; the step that settles it calls fn again from its start
RetryLoop ==
    \A c \in DOMAIN preloads :
        /\ (ev'.op = "preload" /\ ev'.h = c) => TurnsOnce(c)
        /\ preloads[c].status = "waiting"
            => IF ev'.op = "settleLoad" /\ ev'.h = preloads[c].p
               THEN TurnsOnce(c)
               ELSE RunsOf(c) = {} /\ preloads'[c] = preloads[c]

Waiting(c) == preloads[c].status = "waiting"

Resolved(c) == preloads[c].status = "resolved"

\* the last step deleted an entry
Deletion == ev.deleted # {} \/ ev.op = "timer"

Cached(map, key) ==
    /\ Has(map, key)
    /\ IsLoaded(map[key].value)
    /\ map[key].value.kind # "throw"

\* the step is a suspending pass whose reads are all of keys that the fn of
\* the resolved preload call c read
ReadsPreloaded(c) ==
    /\ Resolved(c)
    /\ ev'.op = "pass" /\ ev'.reads # <<>>
    /\ Range(ev'.reads) \subseteq Range(preloads[c].fn)

\* every read of the step's pass returned the value the store held, the pass
\* completed and no GET was started
ReadsHit ==
    /\ ev'.end = "done"
    /\ Len(ev'.res) = Len(ev'.reads)
    /\ \A i \in DOMAIN ev'.reads :
        /\ Cached(cache, ev'.reads[i])
        /\ ev'.res[i] = Returned(cache[ev'.reads[i]].value)
    /\ NewGets = {}

\* C17 as stated: after a preload call has resolved, a suspending read of each
\* key that its fn read returns the cached value, raises no pending signal and
\* starts no transport call, so the pass completes.
C17_PreloadedReadsHit ==
    [][\A c \in DOMAIN preloads : ReadsPreloaded(c) => ReadsHit]_vars

\* the step resolves preload call c
Resolves(c) ==
    /\ preloads'[c].status = "resolved"
    /\ RunsOf(c) # {}

\* C17, amended: when a preload call resolves, the store holds a value for
\* every key its fn read; the store keeps holding a value for a key until a
\* touch, a reset or a deletion timer removes the entry or a response is
\* written over it; and a suspending pass that reads only keys the store
\* holds values for gets those values, raises no pending signal, starts no
\* transport call and completes.
C17_PreloadedReadsHitWhileCached ==
    [][/\ \A c \in DOMAIN preloads :
            /\ Resolves(c)
                => \A key \in Range(preloads'[c].fn) : Cached(cache', key)
            /\ (/\ ReadsPreloaded(c)
                /\ \A key \in Range(ev'.reads) : Cached(cache, key))
                => ReadsHit
       /\ \A key \in Keys :
            (Cached(cache, key) /\ ~Cached(cache', key))
                => \/ key \in ev'.deleted
                   \/ ev'.op \in {"timer", "settleLoad", "settleTouch"}
      ]_vars

\* the test's scenario: a preload call made through the exported api object
\* has resolved, and the first pass of reader 1 has read the preloaded key,
\* got its value and completed with no GET under way
C17_Witness ==
    /\ ev.op = "pass" /\ ev.end = "done"
    /\ ev.reads = <<"/users/1">>
    /\ ev.res = <<Returned(Data("plain"))>>
    /\ \E c \in DOMAIN preloads :
        /\ Resolved(c)
        /\ preloads[c].by = 0
        /\ preloads[c].fn = <<"/users/1">>
    /\ cache["/users/1"].subscribersCount = 1
    /\ UsedGets = {}

Rejected(c) == preloads[c].status = "rejected"

\* the step ran the fn of preload call c and fn raised something that is not
\* a future: the call is rejected with what fn raised, and fn ran once
RejectsAtOnce(c) ==
    \A i \in RunsOf(c) :
        LET run == ev'.runs[i]
        IN  run.end = "error"
                => /\ run.res[Len(run.res)].kind = "error"
                   /\ preloads'[c].status = "rejected"
                   /\ preloads'[c].reason = run.res[Len(run.res)].value
                   /\ RunsOf(c) = {i}

\* C18: a fn that raises something that is not a pending future, a cached
\* error that a read raises again included, makes preload reject with it in
\* the same turn; the rejected call never runs fn again: only a new call of
\* preload does.
C18_RejectsImmediately ==
    [][\A c \in DOMAIN preloads :
        /\ RejectsAtOnce(c)
        /\ (Rejected(c) /\ ~(ev'.op = "preload" /\ ev'.h = c))
            => RunsOf(c) = {} /\ preloads'[c] = preloads[c]
      ]_vars

\* the GET that preload awaited has failed with status 500; fn ran again, its
\* read raised the cached error, and the call is rejected with that error
C18_Witness ==
    /\ ev.op = "settleLoad" /\ ev.status = 500
    /\ Len(ev.runs) = 1 /\ ev.runs[1].end = "error"
    /\ ev.runs[1].res = <<RaisedError(ev.h)>>
    /\ Rejected(ev.runs[1].c)
    /\ preloads[ev.runs[1].c].reason = ErrObj(ev.h)
    /\ cache["/users/1"].value = Thrower(ev.h)

\* reader r has committed a pass
Committed(r) == r \in subscribers \cup effects

\* reader r has committed a pass that read key with defer and caught its
\* pending signal: the reader shows loading = true, and the fetch is unsettled
Loading(r, key) ==
    /\ Committed(r)
    /\ key \in keysRef[r]
    /\ Has(cache, key)
    /\ cache[key].value = Undefined
    /\ cache[key].promise # 0

\* C19: a reader whose committed pass caught the pending signal of K with
\* defer is subscribed to K: the step in which K's fetch settles invokes the
\* reader's listener, which makes it evaluate again, and when the fetch
\* settled with a value the store then holds that value for the read of the
\* new pass.  The notification is never lost.
C19_DeferNotified ==
    [][ev'.op = "settleLoad"
        => \A r \in Readers :
            LET K == ev'.reads[1]
            IN  Loading(r, K) /\ cache[K].promise = ev'.h
                    => /\ Updates(ev'.notes, r, K) # {}
                       /\ ev'.status = 200
                            => /\ Cached(cache', K)
                               /\ cache'[K].value = Data(ev'.data)
      ]_vars

\* C20: direct mode.  A call through an api object outside an evaluation pass
\* and outside preload returns the future of the transport call; it leaves
\* the store, its entries and their counts, the deletion timers and the
\* cache fetches as they are, registers no interest and invokes no listener.
C20_DirectMode ==
    [][ev'.op = "direct"
        => /\ ev'.res = <<DirectCall>>
           /\ cache' = cache
           /\ timers' = timers
           /\ gets' = gets
           /\ keysRef' = keysRef
           /\ previousKeysRef' = previousKeysRef
           /\ subscribers' = subscribers
           /\ ev'.notes = <<>>
      ]_vars

\* the exported api object has been called for a key that has no entry while
\* reader 1 is mounted: the call returned the transport's future and the
\* store is still empty, with no GET of the cache under way
C20_Witness ==
    /\ ev.op = "direct" /\ ev.by = 0
    /\ ev.reads = <<"/users/1">> /\ ev.res = <<DirectCall>>
    /\ ~Has(cache, "/users/1")
    /\ subscribers = {1}
    /\ UsedGets = {}

\* the entries that hold a materialized value that is not an error and are
\* not pending
Exportable(map) ==
    {key \in DOMAIN map :
        /\ map[key].value.kind \in {"data", "null"}
        /\ map[key].promise = 0}

\* C21: save() returns a mapping whose keys are exactly the keys whose entry
\* holds a materialized value that is not an error and that is not pending,
\* each mapped to that value, and changes nothing in the store.
C21_SaveExports ==
    [][ev'.op = "save"
        => /\ ev'.end = "done"
           /\ DOMAIN ev'.file = Exportable(cache)
           /\ \A key \in DOMAIN ev'.file : ev'.file[key] = cache[key].value
           /\ cache' = cache
           /\ timers' = timers
      ]_vars

\* C22: restore(m) creates, for each key of m that the store lacks, an entry
\* that holds m's value, with subscribersCount 0, no dependent keys, no
\* future and no deletion timer; it leaves every entry that is in the store
\* as it is and invokes no listener; and the read of a restored key that
\* follows is a hit: it returns the value, raises no pending signal and
\* starts no transport call.
C22_RestoreSeeds ==
    [][/\ ev'.op = "restore"
            => /\ \A key \in DOMAIN ev'.file \ DOMAIN cache :
                    /\ Has(cache', key)
                    /\ cache'[key] = Item(ev'.file[key], 0, 0, <<>>, 0)
                    /\ Cached(cache', key)
               /\ \A key \in DOMAIN cache :
                    Has(cache', key) /\ cache'[key] = cache[key]
               /\ DOMAIN cache' = DOMAIN cache \cup DOMAIN ev'.file
               /\ ev'.notes = <<>>
               /\ timers' = timers /\ gets' = gets
               /\ keysRef' = keysRef /\ subscribers' = subscribers
       /\ (/\ ev.op = "restore"
           /\ ev'.op = "pass" /\ ev'.reads # <<>>
           /\ Range(ev'.reads) \subseteq ev.created)
            => ReadsHit
      ]_vars

\* restore({"/users/1": null}) has seeded the key, and the first pass of
\* reader 1 has read it: the read returned null, the pass completed and no
\* GET was ever issued (no response of this server is a null)
C22_Witness ==
    /\ ev.op = "pass" /\ ev.end = "done"
    /\ ev.reads = <<"/users/1">> /\ ev.res = <<Returned(Null)>>
    /\ cache["/users/1"] = Item(Null, 0, 1, <<>>, 0)
    /\ UsedGets = {}

\* C23: reset() leaves the store empty and cancels every deletion timer that
\* is outstanding: after the call no entry exists and no timer armed before it
\* is still pending, so none of them can fire on an entry created afterwards.
C23_ResetCancels ==
    [][ev'.op = "reset"
        => /\ cache' = EmptyMap
           /\ \A t \in DOMAIN timers : timers'[t] = NoTimer]_vars

\* C24: a touch that matches no key of the store issues no GET, leaves every
\* entry, every timer and every fetch in flight as it was, and invokes no
\* listener: no reader is notified or evaluates again.
C24_TouchMatchesNothing ==
    [][(ev'.op = "touch" /\ ev'.matcher \cap DOMAIN cache = {})
        => /\ cache' = cache
           /\ gets' = gets
           /\ timers' = timers
           /\ NewGets = {}
           /\ ev'.reads = <<>> /\ ev'.deleted = {}
           /\ ev'.notes = <<>>
           /\ subscribers' = subscribers /\ keysRef' = keysRef]_vars

\* a touch of /users while the store holds only /users/1, which a mounted
\* reader reads
C24_Witness ==
    /\ ev.op = "touch" /\ ev.matcher = {"/users"}
    /\ DOMAIN cache = {"/users/1"}
    /\ cache["/users/1"].subscribersCount > 0
    /\ subscribers # {}

\* C25: deletions act on the current state.  An entry that a firing deletion
\* timer or a touch removes from the store has no subscriber at the moment it
\* is removed, also when it gained one after the timer was armed.
C25_DeletesUnsubscribed ==
    [][ev'.op \in {"timer", "touch"}
        => \A key \in DOMAIN cache \ DOMAIN cache' :
                cache[key].subscribersCount <= 0]_vars

\* the entry of key has its deletion timer armed, and no other timer is
\* pending for the key
Armed(key) ==
    /\ Has(cache, key)
    /\ cache[key].deletionTimeout # 0
    /\ \A t \in DOMAIN timers :
            timers[t].key = key => t = cache[key].deletionTimeout

\* the step is a pass that reads key and counts it up
Resubscribes(key) ==
    /\ ev'.op = "pass" /\ key \in Range(ev'.reads)
    /\ Has(cache', key)
    /\ cache'[key].subscribersCount > cache[key].subscribersCount

\* the step is the task of a response in which setKey writes the entry of key
Rewrites(key) ==
    /\ ev'.op \in {"settleLoad", "settleTouch"}
    /\ Has(cache', key) /\ cache'[key] # cache[key]

\* the step counts key down to 0 or less: deferRemoveKey runs for it
Rearms(key) ==
    /\ ev'.op \in {"pass", "unmount"}
    /\ Has(cache', key)
    /\ cache'[key].subscribersCount < cache[key].subscribersCount
    /\ cache'[key].subscribersCount <= 0

\* no timer is pending for key but the one its entry holds
EarlierCancelled(key) ==
    \A t \in DOMAIN timers :
        timers[t].key = key => Has(cache, key) /\ cache[key].deletionTimeout = t

\* C26: when the entry of K has its deletion timer armed and K is read again,
\* written again, or its timer is armed again, the earlier timer is cancelled:
\* afterwards no timer is pending for K except the one the entry holds, so K
\* is not deleted when the grace period of the earlier timer is over.
C26_EarlierTimerCancelled ==
    [][\A key \in Keys :
        (Armed(key) /\ (Resubscribes(key) \/ Rewrites(key) \/ Rearms(key)))
            => /\ EarlierCancelled(key)'
               /\ ~Rearms(key) => \A t \in DOMAIN timers : timers'[t].key # key
       ]_vars

\* the step commits a pass of a reader or unmounts a reader
Accounts == (ev'.op = "pass" /\ ev'.end = "done") \/ ev'.op = "unmount"

\* C27: interest accounting.  After the commit of a pass or an unmount the
\* subscribersCount of every entry is the number of mounted readers whose
\* last completed pass read its key.  Stated for the steps after which the
\* reader of the step is the only one that can be mounted: the count of a key
\* is 1 when the step is a commit of a pass that read the key, and 0
\* otherwise; so a reader that mounts, runs passes and unmounts leaves every
\* count as it was.
C27_InterestAccounting ==
    [][(Accounts /\ subscribers' \subseteq {ev'.r})
        => \A key \in DOMAIN cache' :
                cache'[key].subscribersCount =
                    IF ev'.op = "pass" /\ key \in Range(ev'.reads)
                    THEN 1 ELSE 0]_vars

\* the entry of key holds the handle of a pending timer of the key
LiveTimer(map, handles, key) ==
    /\ map[key].deletionTimeout # 0
    /\ handles[map[key].deletionTimeout].key = key

\* C28: an entry that had subscribers and dropped to subscribersCount 0 is
\* never left in the store without a live deletion timer.  The step that
\* counts an entry down from a positive count to 0 leaves it with a live
\* timer, and an entry that has count 0 and a live timer keeps a live timer
\* for as long as it stays in the store with count 0.
C28_IdleEntryHasTimer ==
    [][\A key \in DOMAIN cache \cap DOMAIN cache' :
        cache'[key].subscribersCount = 0
        => /\ cache[key].subscribersCount > 0
                => LiveTimer(cache', timers', key)
           /\ (cache[key].subscribersCount = 0 /\ LiveTimer(cache, timers, key))
                => LiveTimer(cache', timers', key)]_vars

\* the step writes a value or an error to key with setKey: the response of a
\* load of the key, or the response that ends a touch call that refetched it
WritesResult(key) ==
    \/ ev'.op = "settleLoad" /\ ev'.reads = <<key>>
    \/ LastOfTouch /\ \E q \in BatchOf(ev'.h) : gets[q].key = key

\* the notifications of the step that reader r got about key
NotesTo(r, key) == {i \in NotesAbout(ev'.notes, key) : ev'.notes[i][1] = r}

\* C29: the write of a value or an error to K leaves the entry of K with a
\* value or an error and no future, with the subscribersCount it had (0 when
\* it had no entry); the deletion timer of the entry is cancelled; and every
\* registered listener, and nobody else, is invoked exactly once with K.
C29_WriteResult ==
    [][\A key \in Keys : WritesResult(key) =>
        /\ Has(cache', key)
        /\ cache'[key].value # Undefined
        /\ cache'[key].promise = 0
        /\ cache'[key].subscribersCount =
                IF Has(cache, key) THEN cache[key].subscribersCount ELSE 0
        /\ cache'[key].deletionTimeout = 0
        /\ \A t \in DOMAIN timers :
                (Has(cache, key) /\ cache[key].deletionTimeout = t)
                    => timers'[t] = NoTimer
        /\ \A r \in Readers :
                Cardinality(NotesTo(r, key)) = IF r \in subscribers THEN 1 ELSE 0
       ]_vars

\* the load of /users/1 has failed while two readers are mounted and neither
\* reads the key: the entry holds the error, has no future, no subscriber and
\* no timer, and both listeners were invoked with the key
C29_Witness ==
    /\ ev.op = "settleLoad" /\ ev.status = 500 /\ ev.reads = <<"/users/1">>
    /\ subscribers = Readers
    /\ Len(ev.notes) = 2
    /\ Has(cache, "/users/1")
    /\ cache["/users/1"].value.kind = "throw"
    /\ cache["/users/1"].subscribersCount = 0
    /\ \A t \in DOMAIN timers : timers[t] = NoTimer

\* the step writes a future to key with setKey and commits no pass: a touch
\* that refetches the key, or a pass that suspends with a new fetch of the key
WritesFuture(key) ==
    /\ NewGetsFor(key) # {}
    /\ \/ ev'.op = "touch"
       \/ ev'.op = "pass" /\ ev'.end = "suspended"

\* C30: the write of a future to K (the start of a load or of a touch refetch)
\* leaves the entry of K pending on that future, with the subscribersCount it
\* had (0 when it had no entry), and invokes no listener.
C30_WriteFuture ==
    [][\A key \in Keys : WritesFuture(key) =>
        /\ Has(cache', key)
        /\ cache'[key].promise \in NewGetsFor(key)
        /\ cache'[key].subscribersCount =
                IF Has(cache, key) THEN cache[key].subscribersCount ELSE 0
        /\ ev'.notes = <<>>]_vars

\* a touch has started the refetch of /users/1 while both readers are mounted
\* and read the key: the entry is pending, counts two subscribers, and no
\* listener was invoked
C30_Witness ==
    /\ ev.op = "touch" /\ ev.reads = <<"/users/1">>
    /\ subscribers = Readers
    /\ Has(cache, "/users/1")
    /\ cache["/users/1"].promise # 0
    /\ cache["/users/1"].subscribersCount = 2
    /\ ev.notes = <<>>

\* the entry holds a future together with a value
FutureAndValue(item) == item.promise # 0 /\ item.value # Undefined

\* C31 as stated: entry states are mutually exclusive.  No entry holds a
\* future together with a readable value or error: an entry is pending with
\* no value, or holds a value or an error with no future.
C31_StatesExclusive ==
    \A key \in DOMAIN cache : ~FutureAndValue(cache[key])

\* C31 amended: an entry holds a future together with a value only while the
\* future is that of a touch refetch of its key whose touch call has not
\* written its results; an entry with the future of a load holds no value,
\* and an entry never holds a future together with an error that a read
\* would raise.
C31_ExclusiveButRefetch ==
    \A key \in DOMAIN cache :
        /\ cache[key].promise # 0 => cache[key].value.kind # "throw"
        /\ FutureAndValue(cache[key])
            => /\ gets[cache[key].promise].kind = "touch"
               /\ gets[cache[key].promise].key = key

\* a touch refetches /users/1, which a mounted reader reads: the entry holds
\* the value of the first response together with the future of the refetch
C31_Witness ==
    /\ ev.op = "touch" /\ ev.reads = <<"/users/1">>
    /\ Has(cache, "/users/1")
    /\ cache["/users/1"].value.kind = "data"
    /\ cache["/users/1"].promise # 0
    /\ gets[cache["/users/1"].promise].status = "flight"
    /\ cache["/users/1"].subscribersCount > 0

\* the step writes a value (not an error) to key with setKey
WritesValue(key) ==
    /\ WritesResult(key)
    /\ Has(cache', key) /\ cache'[key].value.kind \in {"data", "null"}

\* C32: the dependentKeys of an entry are the keys the extractor yields for
\* the value of the last value write to its key.  A value write replaces the
\* list by the keys of the new value, so a key that only the old value
\* carried is no longer listed; every other step, the write of an error or of
\* a future included, leaves the list of an entry as it was, and a new entry
\* that no value write made starts with an empty list.
C32_DependentKeysRecomputed ==
    [][\A key \in DOMAIN cache' :
        IF WritesValue(key)
        THEN cache'[key].dependentKeys = deduplicationStrategy(cache'[key].value)
        ELSE cache'[key].dependentKeys =
                IF Has(cache, key) THEN cache[key].dependentKeys ELSE <<>>
       ]_vars

\* the refetch of a key that held a list has brought a value that carries no
\* entity: the list of the entry is empty again
C32_Witness ==
    /\ ev.op = "settleTouch" /\ ev.status = 200 /\ ev.reads # <<>>
    /\ ev.old = Data("list")
    /\ Has(cache, ev.reads[1])
    /\ cache[ev.reads[1]].value = Data("plain")
    /\ cache[ev.reads[1]].dependentKeys = <<>>

\* the keys that setKey writes in the step
WrittenKeys == {key \in Keys : WritesResult(key)}

\* the entry of key and its timer are after the step what they were before
Untouched(key) ==
    /\ Has(cache', key) /\ cache'[key] = cache[key]
    /\ cache[key].deletionTimeout # 0
        => timers'[cache[key].deletionTimeout] = timers[cache[key].deletionTimeout]

\* C33: a value write to K deletes no entry and leaves every entry that
\* exists under a key derived from the value as it was, with its value,
\* future, subscribersCount, dependentKeys and timer; the entries of keys that
\* the new value no longer carries stay in the store.
C33_ValueWriteFrame ==
    [][\A key \in Keys : WritesValue(key) =>
        /\ DOMAIN cache \subseteq DOMAIN cache'
        /\ \A d \in Range(deduplicationStrategy(cache'[key].value)) :
                (Has(cache, d) /\ d \notin WrittenKeys) => Untouched(d)
        /\ \A d \in DOMAIN cache \ WrittenKeys : Untouched(d)
       ]_vars

\* the refetch of the list has brought a value that no longer carries the
\* entity: the entry of the entity, which the first value of the list had
\* seeded, is still in the store
C33_Witness ==
    /\ ev.op = "settleTouch" /\ ev.status = 200 /\ ev.reads = <<"/users">>
    /\ ev.old = Data("list")
    /\ Has(cache, "/users")
    /\ cache["/users"].value = Data("plain")
    /\ cache["/users"].dependentKeys = <<>>
    /\ Has(cache, "/users/1")
    /\ cache["/users/1"].subscribersCount = 0

\* the load p is in flight and the store does not hold its future: the entry
\* it was started for has left the store
Stale(p) ==
    /\ gets[p].kind = "load" /\ gets[p].status = "flight"
    /\ ~(Has(cache, gets[p].key) /\ cache[gets[p].key].promise = p)

\* the response of this step settles the stale load p
SettlesStale(p) == Stale(p) /\ ev'.op = "settleLoad" /\ ev'.h = p

\* the response of this step is written to key and every mounted reader is
\* told about key once
WrittenAndTold(key) ==
    /\ Has(cache', key)
    /\ cache'[key].value =
        Written(LoadResult([status |-> ev'.status, data |-> ev'.data], ev'.h))
    /\ \A r \in Readers :
            Cardinality(NotesTo(r, key)) = IF r \in subscribers THEN 1 ELSE 0

\* C34 as stated: reset() cancels no fetch, and the outcome of a load of K
\* that was in flight at the reset is written to the new store as an entry of
\* K with subscribersCount 0, the listeners being notified about K.
C34_ResetKeepsFetches ==
    [][/\ ev'.op = "reset" => gets' = gets
       /\ \A p \in DOMAIN gets : SettlesStale(p)
            => /\ WrittenAndTold(gets[p].key)
               /\ cache'[gets[p].key].subscribersCount = 0]_vars

\* C34 amended: the outcome is written to the entry of K in the new store.
\* When K has no entry at that time the write creates one with
\* subscribersCount 0; when K was read again after the reset and has an entry,
\* the write replaces its value and future and keeps its subscribersCount.
C34_ResetKeepsFetchesAndCounts ==
    [][/\ ev'.op = "reset" => gets' = gets
       /\ \A p \in DOMAIN gets : SettlesStale(p)
            => /\ WrittenAndTold(gets[p].key)
               /\ cache'[gets[p].key].promise = 0
               /\ cache'[gets[p].key].subscribersCount =
                    IF Has(cache, gets[p].key)
                    THEN cache[gets[p].key].subscribersCount ELSE 0]_vars

\* the store was reset while load 1 of /users/1 was in flight, a reader
\* then mounted with a read of the key, which started load 2, and the
\* response of load 1 has been written to the new entry: it holds the value
\* and no future, counts the reader, who was told, and load 2 is in flight
C34_Witness ==
    /\ ev.op = "settleLoad" /\ ev.h = 1 /\ ev.status = 200
    /\ ev.reads = <<"/users/1">>
    /\ gets[2].kind = "load" /\ gets[2].key = "/users/1"
    /\ gets[2].status = "flight"
    /\ Has(cache, "/users/1")
    /\ cache["/users/1"].value.kind = "data"
    /\ cache["/users/1"].promise = 0
    /\ cache["/users/1"].subscribersCount = 1
    /\ ev.notes # <<>>

\* the calls of forceUpdate() that the step makes for reader r: the
\* notifications about a key that keysRef of r holds
ForcedUpdates(r) ==
    {i \in DOMAIN ev'.notes : ev'.notes[i][1] = r /\ ev'.notes[i][3]}

\* the keys that the touch call ending in this step writes
BatchKeys == {gets[q].key : q \in BatchOf(ev'.h)}

\* C35: batched notification.  When a touch call writes the results of
\* several keys that one listener reads, the listener is made to evaluate
\* again once for the batch, not once for every key.
C35_BatchedNotification ==
    [][LastOfTouch =>
        \A r \in subscribers :
            (Cardinality(BatchKeys) > 1 /\ BatchKeys \subseteq keysRef[r])
                => Cardinality(ForcedUpdates(r)) = 1]_vars

\* the last step wrote to key the result of a fetch that was the newest one
\* of the key, and a fetch of the key that was issued before it is unsettled
NewestWritten(key) ==
    /\ ev.op \in {"settleLoad", "settleTouch"}
    /\ ev.reads = <<key>> /\ ev.newest
    /\ gets[ev.h] = NoGet
    /\ Has(cache, key)

\* C36: no stale overwrite.  When two fetches of one key are in flight at
\* once, the result of the one that was issued first never replaces the
\* result of the one that was issued last: once the newest fetch of key has
\* written its result, the response of an older fetch of key leaves the value
\* of the entry as it is.
C36_NoStaleOverwrite ==
    [][\A key \in Keys :
        (NewestWritten(key) /\ WritesResult(key))
            => /\ Has(cache', key)
               /\ cache'[key].value = cache[key].value]_vars

\* the entry of key holds the error of a failed fetch, as the accessor that
\* raises it or as the Error object, while a touch refetch of key is in flight
ErrorUnderRefetch(key) ==
    /\ Has(cache, key)
    /\ cache[key].value.kind \in {"throw", "errobj"}
    /\ cache[key].promise # 0
    /\ gets[cache[key].promise].kind = "touch"
    /\ gets[cache[key].promise].status = "flight"

\* C37: while a touch refetch of a key whose entry holds a cached error is
\* in flight, a read of the key in a pass raises that error, never returns
\* the error object as a value, and save() does not export the key.
C37_ErrorKeptUnderRefetch ==
    [][\A key \in Keys : ErrorUnderRefetch(key) =>
        /\ ev'.op = "pass"
            => \A i \in DOMAIN ev'.res :
                    ev'.reads[i] = key
                        => ev'.res[i] = RaisedError(cache[key].value.id)
        /\ ev'.op = "save" => key \notin DOMAIN ev'.file]_vars

\* the step removes the entry of key otherwise than by a timer of key
RemovedByOther(key) ==
    /\ Has(cache, key) /\ ~Has(cache', key)
    /\ ~(ev'.op = "timer" /\ ev'.reads = <<key>>)

\* C38: when an entry is removed by the cascade of another entry's timer, or
\* by any deletion other than its own timer, the deletion timer that was
\* armed for it is cancelled with it: no timer stays pending for its key, so
\* none can delete an entry that is created for the key afterwards.
C38_TimerGoesWithEntry ==
    [][\A key \in Keys :
        RemovedByOther(key)
            => \A t \in DOMAIN timers : timers'[t].key # key]_vars

\* the entry of key holds a future
Pending(key) == Has(cache, key) /\ cache[key].promise # 0

\* the entry of key holds a value, null or an error, and no future
Present(key) ==
    Has(cache, key) /\ cache[key].promise = 0 /\ cache[key].value # Undefined

\* preload call c awaits a pending signal
Stuck(c) == preloads[c].status \in {"waiting", "spinning"}

\* the last step called fn of preload call c again after a wait
Woken(c) ==
    /\ ev.op \in {"settleLoad", "settleTouch"}
    /\ \E i \in DOMAIN ev.runs : ev.runs[i].c = c

\* the response to a load fetch is written: no entry holds the future of that
\* fetch afterwards and no preload call awaits it again
LoadSettlesForGood ==
    ev'.op = "settleLoad"
        => /\ \A c \in DOMAIN preloads : preloads'[c].status # "spinning"
           /\ ev'.runs = <<>>
                => \A key \in DOMAIN cache' : cache'[key].promise # ev'.h

\* C39: when the transport answers every GET in the end, every entry that
\* holds a future comes to hold a value, null or an error without a future, or
\* is deleted; every touch call completes; every wait of a preload call on a
\* pending signal ends; and once the response to a load fetch is written, a
\* read of its key does not raise the future of that fetch again.
C39_Liveness ==
    /\ \A key \in Keys : Pending(key) ~> (Present(key) \/ ~Has(cache, key))
    /\ (Touching(gets) # {}) ~> (Touching(gets) = {})
    /\ \A c \in 1..MaxPreloads :
            Stuck(c) ~> (~Stuck(c) \/ (Woken(c) /\ Waiting(c)))
    /\ [][LoadSettlesForGood]_vars

\* a preload call awaits a pending signal
PreloadPending == \E c \in DOMAIN preloads : Waiting(c)

\* the step is a direct call or a pass that behaves as with no preload call
\* running: the direct call returns the transport's future, the pass that
\* completes has its reads in the interest set of its reader
AsWithoutPreload ==
    /\ ev'.op = "direct" => ev'.res = <<DirectCall>>
    /\ (ev'.op = "pass" /\ ev'.end = "done")
            => keysRef'[ev'.r] = Range(ev'.reads)

\* C40: the engine is in non-subscribing mode only while a preload call runs
\* fn.  Between two steps, fn having returned or raised and while preload
\* calls await their pending signals, doSubscription is true; so a direct call
\* or a pass that runs while preload calls, one or two, are pending behaves as
\* with no preload call running.
C40_SubscribingRestored ==
    /\ [](doSubscription = TRUE)
    /\ [][PreloadPending => AsWithoutPreload]_vars

\* two preload calls await the futures of two fetches and reader 1, mounted
\* meanwhile, has completed a pass that read nothing
C40_Witness ==
    /\ \A c \in DOMAIN preloads : Waiting(c)
    /\ preloads[1].p # preloads[2].p
    /\ ev.op = "pass" /\ ev.end = "done"
    /\ doSubscription = TRUE

====
